---- MODULE Spec2Model ----
(***************************************************************************)
(* Flowrensics job runners:                                                *)
(*   VolatilityRunner  (src/volatility_executor.py)  concurrent plugins    *)
(*   ToolExecutor      (src/tool_executor.py)        sequential EZ tools   *)
(*   HayabusaExecutor  (src/hayabusa_executor.py)    single job + install  *)
(* Each runner has its own specification (SpecVol, SpecTE, SpecHay); the   *)
(* variables of the other runners stay at their constructor values.        *)
(* SpecVolClose and SpecVolFault add the operator closing the window and   *)
(* the failures of spawning, decoding and writing; SpecList and SpecBuild  *)
(* call utils.list_user_directories and the two command builders; SpecOut   *)
(* follows the output lines of a ToolExecutor batch to the text box and    *)
(* SpecDiag the error output of a failed Volatility plugin to its status;  *)
(* SpecApp has the operator start several runs from the main window.       *)
(***************************************************************************)
EXTENDS Integers, Sequences, FiniteSets, TLC

\* ------------------------------------------------------------------ bounds
\* number of entries of self.PLUGINS in the model (9 in the source)
NumPlugins == 2

\* longest selection list given to ToolExecutor
MaxSel == 2
\* number of user directories that may exist under <triage>/Users
MaxUsers == 2
\* longest output stream of the Hayabusa process, in characters
MaxStream == 4
\* number of entries the scanned Users folder may hold
MaxEntries == 3
\* clock ticks that may pass while the builders are called
MaxTicks == 3
\* commands of the batch whose output lines are followed
MaxCmds == 2
\* output lines the processes of the batch may write altogether
MaxOutput == 3
\* longest error output of a failed plugin, in characters
MaxErr == 123
\* runs the operator may start from the main window
MaxRuns == 2
\* entries of self.PLUGINS of a runner when several runs are followed
MaxRunJobs == 2

\* ------------------------------------------------------- VolatilityRunner
VARIABLES
    venv_present,    \* Path(self.venv_path).is_dir()
    vol_exe_present, \* self.vol_exe.is_file()
    run_pc,          \* position of run() on the main thread
    probe_rc,        \* exit status of the probe command of _is_symbole (-1 = not run)
    next_plugin,     \* loop variable of "for plugin in self.PLUGINS"
    dlg,             \* self.dlg: "none" | "alive" | "destroyed" | "closed" (by the operator)
    bar,             \* numerator of the value last given to self.pb.set
    boxes,           \* titles/messages of the message boxes run() has shown
    queue,           \* self.queue (FIFO of <<plugin, status>>)
    status,          \* self.status ("none" = key absent)
    plugin_error,    \* self.plugin_error
    after_pending,   \* _poll_queue callbacks scheduled with parent.after
    w_pc,            \* position of each _worker thread
    returncode,      \* proc.returncode of each plugin process (-1 = not exited)
    spawned,         \* number of Popen calls made for each plugin
    out_written,     \* out_file.write_text done for the plugin
    poll_pc,         \* position inside _poll_queue of each calling thread
    poll_msg,        \* local (plugin, status) of each caller
    poll_finished,   \* local "finished" of each caller
    summaries        \* batch-finished summaries issued so far

volVars == <<venv_present, vol_exe_present, run_pc, probe_rc, next_plugin, dlg, bar, boxes,
             queue, status, plugin_error, after_pending, w_pc, returncode, spawned,
             out_written, poll_pc, poll_msg, poll_finished, summaries>>

\* ToolExecutor
VARIABLES
    te_tools,        \* self.tools
    te_users,        \* list_user_directories(root / "Users"), discovery order
    te_pc,           \* position of start() / the _run thread
    te_dlg,          \* self._dlg: "none" | "alive" | "closing"
    te_status,       \* text last given to _safe_status
    te_commands,     \* self._commands
    te_total_steps,  \* self._total_steps
    te_current_step, \* self._current_step
    te_idx,          \* position of "for cmd in self._commands" (1-based)
    te_live,         \* indexes of commands whose child process is alive
    te_spawned,      \* number of Popen calls that created a process
    te_rc,           \* exit status of the command just waited for (-1 = none)
    te_failures,     \* number of processes that exited non-zero
    te_error_boxes,  \* number of "Tool execution - Error" reports
    te_finished,     \* number of times "All tools finished" was issued
    te_warnings      \* tools logged as "Unknown tool selected", in order

teVars == <<te_tools, te_users, te_pc, te_dlg, te_status, te_commands,
            te_total_steps, te_current_step, te_idx, te_live, te_spawned, te_rc,
            te_failures, te_error_boxes, te_finished, te_warnings>>

\* HayabusaExecutor
VARIABLES
    hay_exe_present, \* self.hayabusa_exe.exists()
    hay_pc,          \* position of start() / the _run thread
    hay_dlg,         \* self._dlg: "none" | "alive" | "destroyed"
    hay_status,      \* text last given to _safe_status
    hay_answer,      \* what the install prompt returned ("" = not asked)
    hay_installs,    \* number of _install calls
    hay_builds,      \* number of _build_command calls
    hay_spawned,     \* number of processes created by Popen
    hay_written,     \* the characters the child process writes, decoded
    hay_stream,      \* what the read loop has still to read from proc.stdout
    hay_buf,         \* local buf of the read loop
    hay_outbox,      \* lines given to _safe_append, in order
    hay_boxes        \* titles of the message boxes shown, in order

hayVars == <<hay_exe_present, hay_pc, hay_dlg, hay_status, hay_answer, hay_installs, hay_builds,
             hay_spawned, hay_written, hay_stream, hay_buf, hay_outbox, hay_boxes>>

\* calls of the pure functions, outside any runner
VARIABLES
    fs_base,         \* what base_path is: "dir" | "missing" | "file"
    fs_entries,      \* os.scandir(base_path): [name, is_dir] in scan order
    fs_pc,           \* list_user_directories: "idle" | "call" | "returned" | "raised"
    fs_result,       \* the list it returned
    bc_pc,           \* position of the two-call sequence of the builders
    bc_clock,        \* datetime.now(), in ticks
    bc_te,           \* what the calls of ToolExecutor._build_commands returned
    bc_hay           \* what the calls of HayabusaExecutor._build_command returned

\* the output lines of a ToolExecutor batch (_execute, _safe_append)
VARIABLES
    ex_script,       \* per command: the lines its process writes and its exit status
    ex_pc,           \* position of the _run thread in the loop over the commands
    ex_idx,          \* position of "for cmd in self._commands" (1-based)
    ex_pos,          \* next line of "for line in proc.stdout" (1-based)
    ex_after,        \* callbacks scheduled with after() and not yet run, oldest first
    ex_dlg,          \* the window of self._outbox: "none" | "alive" | "closed" | "destroyed"
    ex_outbox        \* the lines of self._outbox, first to last

\* the diagnostic of a failed Volatility plugin (_worker, _poll_queue)
VARIABLES
    dg_stderr,       \* err.stderr: each character stands for its offset in the text
    dg_pc,           \* "idle" | "raised" | "queued" | "recorded"
    dg_queued,       \* the status text put on self.queue
    dg_status        \* self.status[plugin]

fsVars == <<fs_base, fs_entries, fs_pc, fs_result>>
bcVars == <<bc_pc, bc_clock, bc_te, bc_hay>>
exVars == <<ex_script, ex_pc, ex_idx, ex_pos, ex_after, ex_dlg, ex_outbox>>
\* the runners the main window has created (gui.py, 334-377)
VARIABLES
    app_vol,         \* the VolatilityRunner objects, in creation order
    app_te           \* the ToolExecutor objects, in creation order

dgVars == <<dg_stderr, dg_pc, dg_queued, dg_status>>
appVars == <<app_vol, app_te>>
fnVars == <<fsVars, bcVars, exVars, dgVars, appVars>>

vars == <<volVars, teVars, hayVars, fnVars>>

Plugins == 1..NumPlugins          \* keys of self.PLUGINS, in dict order
total_jobs == NumPlugins          \* self.total_jobs = len(self.PLUGINS)
MainThread == 0                   \* the Tk main loop thread
Callers == {MainThread} \cup Plugins   \* threads that may call _poll_queue
ExitCodes == {0, 2}               \* exit status of a child process
NoMsg == <<0, "none">>

\* s in ("ok",) or s.startswith("error")
IsTerminal(s) == s = "ok" \/ s = "error"

\* sum(1 for s in self.status.values() if ...)
Finished(st) == Cardinality({p \in Plugins : IsTerminal(st[p])})

\* [p for p, s in self.status.items() if s == "start"]
Running(st) == {p \in Plugins : st[p] = "start"}

\* len(self.status)
StatusLen(st) == Cardinality({p \in Plugins : st[p] # "none"})

VolInit ==
    /\ venv_present \in BOOLEAN
    /\ vol_exe_present \in BOOLEAN
    /\ run_pc = "run"
    /\ probe_rc = -1
    /\ next_plugin = 1
    /\ dlg = "none"
    /\ bar = 0
    /\ boxes = {}
    /\ queue = <<>>
    /\ status = [p \in Plugins |-> "none"]
    /\ plugin_error = <<>>
    /\ after_pending = 0
    /\ w_pc = [p \in Plugins |-> "unstarted"]
    /\ returncode = [p \in Plugins |-> -1]
    /\ spawned = [p \in Plugins |-> 0]
    /\ out_written = [p \in Plugins |-> FALSE]
    /\ poll_pc = [t \in Callers |-> "idle"]
    /\ poll_msg = [t \in Callers |-> NoMsg]
    /\ poll_finished = [t \in Callers |-> 0]
    /\ summaries = <<>>

\* ---- run(): main thread, src/volatility_executor.py 198-228
workerVars == <<w_pc, returncode, spawned, out_written>>
pollVars == <<poll_pc, poll_msg, poll_finished>>
tableVars == <<queue, status, plugin_error, summaries>>

\* lines 200-204: venv missing -> warning box, return
RunCheckVenv ==
    /\ run_pc = "run"
    /\ IF venv_present
         THEN /\ run_pc' = "check_exe"
              /\ boxes' = boxes
         ELSE /\ run_pc' = "ret_no_venv"
              /\ boxes' = boxes \cup {"Venv not found"}
    /\ UNCHANGED <<venv_present, vol_exe_present, probe_rc, next_plugin, dlg, bar, after_pending>>
    /\ UNCHANGED <<workerVars, pollVars, tableVars>>
    /\ UNCHANGED <<teVars, hayVars, fnVars>>

\* line 206
RunCheckExe ==
    /\ run_pc = "check_exe"
    /\ run_pc' = IF vol_exe_present THEN "dialog" ELSE "install"
    /\ UNCHANGED <<venv_present, vol_exe_present, probe_rc, next_plugin, dlg, bar, boxes, after_pending>>
    /\ UNCHANGED <<workerVars, pollVars, tableVars>>
    /\ UNCHANGED <<teVars, hayVars, fnVars>>

\* line 209, _install (56-79): pip install succeeds (vol.exe appears), fails
\* (scripts dir missing or CalledProcessError, both handled inside _install), or
\* raises (urlretrieve / missing pip.exe: not caught, run() is abandoned)
InstallOutcomes == {"installed", "failed", "raised"}

RunInstall ==
    /\ run_pc = "install"
    /\ \E o \in InstallOutcomes :
         /\ vol_exe_present' = (o = "installed")
         /\ run_pc' = IF o = "raised" THEN "raised" ELSE "recheck"
    /\ UNCHANGED <<venv_present, probe_rc, next_plugin, boxes, dlg, bar, after_pending>>
    /\ UNCHANGED <<workerVars, pollVars, tableVars>>
    /\ UNCHANGED <<teVars, hayVars, fnVars>>

\* lines 210-211
RunRecheckExe ==
    /\ run_pc = "recheck"
    /\ run_pc' = IF vol_exe_present THEN "dialog" ELSE "ret_no_vol"
    /\ UNCHANGED <<venv_present, vol_exe_present, probe_rc, next_plugin, dlg, bar, boxes, after_pending>>
    /\ UNCHANGED <<workerVars, pollVars, tableVars>>
    /\ UNCHANGED <<teVars, hayVars, fnVars>>

\* mutant of RunMakeDialog: the threads are started without the probe
RunMakeDialog_SkipProbe ==
    /\ run_pc = "dialog"
    /\ dlg' = "alive"
    /\ bar' = 0
    /\ run_pc' = "start_threads"
    /\ UNCHANGED <<venv_present, vol_exe_present, probe_rc, next_plugin, boxes, after_pending>>
    /\ UNCHANGED <<workerVars, pollVars, tableVars>>
    /\ UNCHANGED <<teVars, hayVars, fnVars>>

\* line 214, _make_dialog (82-98)
RunMakeDialog ==
    /\ run_pc = "dialog"
    /\ dlg' = "alive"
    /\ bar' = 0
    /\ run_pc' = "probe"
    /\ UNCHANGED <<venv_present, vol_exe_present, probe_rc, next_plugin, boxes, after_pending>>
    /\ UNCHANGED <<workerVars, pollVars, tableVars>>
    /\ UNCHANGED <<teVars, hayVars, fnVars>>

\* mutant of is_symbole: the probe is run without check=True
is_symbole_Unchecked(rc) == TRUE

\* _is_symbole (100-116): subprocess.run(..., check=True) raises
\* CalledProcessError on a non-zero exit -> False, else True
is_symbole(rc) == rc = 0

\* lines 216-223: the probe blocks the main thread; without symbols the dialog
\* is destroyed, a warning is shown and run() returns
RunProbe ==
    /\ run_pc = "probe"
    /\ \E rc \in ExitCodes :
         /\ probe_rc' = rc
         /\ IF is_symbole(rc)
              THEN /\ run_pc' = "start_threads"
                   /\ UNCHANGED <<dlg, boxes>>
              ELSE /\ run_pc' = "ret_no_symbols"
                   /\ dlg' = "destroyed"
                   /\ boxes' = boxes \cup {"Error no symbole table for this image."}
    /\ UNCHANGED <<venv_present, vol_exe_present, next_plugin, bar, after_pending>>
    /\ UNCHANGED <<workerVars, pollVars, tableVars>>
    /\ UNCHANGED <<teVars, hayVars, fnVars>>

\* mutant of NextInOrder: the loop does not advance
NextInOrder_Stuck(n) == n

\* line 225: "for plugin in self.PLUGINS" takes the keys in dict order
NextInOrder(n) == n + 1

\* lines 225-226, _start_plugin_thread (186-195): Thread(target=self._worker).start()
RunStartThread ==
    /\ run_pc = "start_threads"
    /\ IF next_plugin \in Plugins
         THEN /\ w_pc' = [w_pc EXCEPT ![next_plugin] = "put_start"]
              /\ next_plugin' = NextInOrder(next_plugin)
              /\ run_pc' = run_pc
         ELSE /\ run_pc' = "schedule"
              /\ UNCHANGED <<w_pc, next_plugin>>
    /\ UNCHANGED <<venv_present, vol_exe_present, probe_rc, dlg, bar, boxes, after_pending>>
    /\ UNCHANGED <<returncode, spawned, out_written, pollVars, tableVars>>
    /\ UNCHANGED <<teVars, hayVars, fnVars>>

\* line 228: self.parent.after(200, self._poll_queue)
RunSchedule ==
    /\ run_pc = "schedule"
    /\ after_pending' = after_pending + 1
    /\ run_pc' = "ret_started"
    /\ UNCHANGED <<venv_present, vol_exe_present, probe_rc, next_plugin, dlg, bar, boxes>>
    /\ UNCHANGED <<workerVars, pollVars, tableVars>>
    /\ UNCHANGED <<teVars, hayVars, fnVars>>

\* run() has returned (or died): the Tk main loop is free to run callbacks
RunReturned == run_pc \in {"ret_no_venv", "ret_no_vol", "ret_no_symbols",
                           "ret_started", "raised"}

\* ---- _worker (119-146): one daemon thread per plugin
runVars == <<venv_present, vol_exe_present, run_pc, probe_rc, next_plugin, boxes>>
guiVars == <<dlg, bar>>

\* line 122: self.queue.put((plugin, "start"))
WorkerPutStart(p) ==
    /\ w_pc[p] = "put_start"
    /\ queue' = Append(queue, <<p, "start">>)
    /\ w_pc' = [w_pc EXCEPT ![p] = "popen"]
    /\ UNCHANGED <<runVars, guiVars, after_pending, pollVars>>
    /\ UNCHANGED <<status, plugin_error, summaries, returncode, spawned, out_written>>
    /\ UNCHANGED <<teVars, hayVars, fnVars>>

\* line 125: subprocess.Popen(cmd, ...)
WorkerPopen(p) ==
    /\ w_pc[p] = "popen"
    /\ spawned' = [spawned EXCEPT ![p] = @ + 1]
    /\ w_pc' = [w_pc EXCEPT ![p] = "communicate"]
    /\ UNCHANGED <<runVars, guiVars, after_pending, pollVars, tableVars>>
    /\ UNCHANGED <<returncode, out_written>>
    /\ UNCHANGED <<teVars, hayVars, fnVars>>

\* mutant of AfterExit: the return code is not looked at
AfterExit_IgnoreRc(rc) == "write"

\* lines 133-137: proc.communicate(); a non-zero returncode raises
\* CalledProcessError, which lands in the except clause of line 144
AfterExit(rc) == IF rc # 0 THEN "put_error" ELSE "write"

WorkerCommunicate(p) ==
    /\ w_pc[p] = "communicate"
    /\ \E rc \in ExitCodes :
         /\ returncode' = [returncode EXCEPT ![p] = rc]
         /\ w_pc' = [w_pc EXCEPT ![p] = AfterExit(rc)]
    /\ UNCHANGED <<runVars, guiVars, after_pending, pollVars, tableVars>>
    /\ UNCHANGED <<spawned, out_written>>
    /\ UNCHANGED <<teVars, hayVars, fnVars>>

\* mutant of WorkerWrite: the captured output is not written to the file
WorkerWrite_Skip(p) ==
    /\ w_pc[p] = "write"
    /\ w_pc' = [w_pc EXCEPT ![p] = "put_ok"]
    /\ UNCHANGED <<runVars, guiVars, after_pending, pollVars, tableVars>>
    /\ UNCHANGED <<returncode, spawned, out_written>>
    /\ UNCHANGED <<teVars, hayVars, fnVars>>

\* line 140: out_file.write_text(out, encoding="utf-8")
WorkerWrite(p) ==
    /\ w_pc[p] = "write"
    /\ out_written' = [out_written EXCEPT ![p] = TRUE]
    /\ w_pc' = [w_pc EXCEPT ![p] = "put_ok"]
    /\ UNCHANGED <<runVars, guiVars, after_pending, pollVars, tableVars>>
    /\ UNCHANGED <<returncode, spawned>>
    /\ UNCHANGED <<teVars, hayVars, fnVars>>

\* lines 141-143: self.queue.put((plugin, "ok")); self._poll_queue() is entered
\* on the worker's own thread
WorkerPutOk(p) ==
    /\ w_pc[p] = "put_ok"
    /\ queue' = Append(queue, <<p, "ok">>)
    /\ w_pc' = [w_pc EXCEPT ![p] = "poll"]
    /\ poll_pc' = [poll_pc EXCEPT ![p] = "get"]
    /\ UNCHANGED <<runVars, guiVars, after_pending>>
    /\ UNCHANGED <<status, plugin_error, summaries, returncode, spawned, out_written>>
    /\ UNCHANGED <<poll_msg, poll_finished>>
    /\ UNCHANGED <<teVars, hayVars, fnVars>>

\* line 145: self.queue.put((plugin, f"error: {err.stderr[:120]}..."))
WorkerPutError(p) ==
    /\ w_pc[p] = "put_error"
    /\ queue' = Append(queue, <<p, "error">>)
    /\ w_pc' = [w_pc EXCEPT ![p] = "append_error"]
    /\ UNCHANGED <<runVars, guiVars, after_pending, pollVars>>
    /\ UNCHANGED <<status, plugin_error, summaries, returncode, spawned, out_written>>
    /\ UNCHANGED <<teVars, hayVars, fnVars>>

\* line 146: self.plugin_error.append(plugin); the thread ends
WorkerAppendError(p) ==
    /\ w_pc[p] = "append_error"
    /\ plugin_error' = Append(plugin_error, p)
    /\ w_pc' = [w_pc EXCEPT ![p] = "done"]
    /\ UNCHANGED <<runVars, guiVars, after_pending, pollVars>>
    /\ UNCHANGED <<queue, status, summaries, returncode, spawned, out_written>>
    /\ UNCHANGED <<teVars, hayVars, fnVars>>

\* ---- what else may happen to a worker: an exception that is not
\* CalledProcessError passes the except clause of line 144, and the thread
\* ends without a further queue.put

\* the errors= argument of the Popen call of each runner (none at
\* volatility_executor.py 125-132, which means "strict"; tool_executor.py 149;
\* hayabusa_executor.py 131)
VolDecodeErrors == "strict"
TEDecodeErrors == "replace"
HayDecodeErrors == "replace"

\* what a process writes: bytes that are valid UTF-8, or not
OutputKinds == {"text", "malformed"}

\* decoding malformed bytes raises UnicodeDecodeError unless errors="replace"
\* puts U+FFFD in their place
DecodeRaises(kind, errors) == kind = "malformed" /\ errors # "replace"

\* line 125: Popen raises OSError (vol.exe missing or not executable)
WorkerPopenFails(p) ==
    /\ w_pc[p] = "popen"
    /\ w_pc' = [w_pc EXCEPT ![p] = "spawn_error"]
    /\ UNCHANGED <<runVars, guiVars, after_pending, pollVars, tableVars>>
    /\ UNCHANGED <<returncode, spawned, out_written>>
    /\ UNCHANGED <<teVars, hayVars, fnVars>>

\* line 133: the process exits after writing malformed bytes; communicate()
\* decodes what it wrote
WorkerDecodeFails(p) ==
    /\ w_pc[p] = "communicate"
    /\ \E rc \in ExitCodes :
         /\ returncode' = [returncode EXCEPT ![p] = rc]
         /\ w_pc' = [w_pc EXCEPT ![p] = IF DecodeRaises("malformed", VolDecodeErrors)
                                          THEN "decode_error" ELSE AfterExit(rc)]
    /\ UNCHANGED <<runVars, guiVars, after_pending, pollVars, tableVars>>
    /\ UNCHANGED <<spawned, out_written>>
    /\ UNCHANGED <<teVars, hayVars, fnVars>>

\* line 140: write_text raises OSError (disk full, no permission)
WorkerWriteFails(p) ==
    /\ w_pc[p] = "write"
    /\ w_pc' = [w_pc EXCEPT ![p] = "write_error"]
    /\ UNCHANGED <<runVars, guiVars, after_pending, pollVars, tableVars>>
    /\ UNCHANGED <<returncode, spawned, out_written>>
    /\ UNCHANGED <<teVars, hayVars, fnVars>>

\* ---- _poll_queue (149-183), run by the Tk main loop (after callback) and by
\* every succeeding worker (line 143); t is the calling thread

\* the Tk main loop fires one scheduled callback when it is not inside another
MainPollStart ==
    /\ RunReturned
    /\ poll_pc[MainThread] = "idle"
    /\ after_pending > 0
    /\ after_pending' = after_pending - 1
    /\ poll_pc' = [poll_pc EXCEPT ![MainThread] = "get"]
    /\ UNCHANGED <<runVars, guiVars, workerVars, tableVars>>
    /\ UNCHANGED <<poll_msg, poll_finished>>
    /\ UNCHANGED <<teVars, hayVars, fnVars>>

\* _poll_queue returns to its caller: the worker thread ends (line 143 is the
\* last statement of its try block), the main loop becomes idle
Returned(t, wpc) == IF t \in Plugins THEN [wpc EXCEPT ![t] = "done"] ELSE wpc

\* a widget call on the destroyed dialog raises TclError; nothing in
\* _poll_queue or _worker catches it: the callback / the worker thread dies
PollRaise(t) ==
    /\ poll_pc' = [poll_pc EXCEPT ![t] = "idle"]
    /\ poll_msg' = [poll_msg EXCEPT ![t] = NoMsg]
    /\ poll_finished' = [poll_finished EXCEPT ![t] = 0]
    /\ w_pc' = IF t \in Plugins THEN [w_pc EXCEPT ![t] = "dead"] ELSE w_pc

\* line 153: self.queue.get_nowait(); queue.Empty leaves the loop (179-180)
PollGet(t) ==
    /\ poll_pc[t] = "get"
    /\ IF queue = <<>>
         THEN /\ poll_pc' = [poll_pc EXCEPT ![t] = "resched"]
              /\ UNCHANGED <<queue, poll_msg>>
         ELSE /\ poll_msg' = [poll_msg EXCEPT ![t] = Head(queue)]
              /\ queue' = Tail(queue)
              /\ poll_pc' = [poll_pc EXCEPT ![t] = "set"]
    /\ UNCHANGED <<runVars, guiVars, after_pending, workerVars>>
    /\ UNCHANGED <<status, plugin_error, summaries, poll_finished>>
    /\ UNCHANGED <<teVars, hayVars, fnVars>>

\* line 154: self.status[plugin] = status
ApplyStatus(st, msg) == [st EXCEPT ![msg[1]] = msg[2]]

PollSet(t) ==
    /\ poll_pc[t] = "set"
    /\ status' = ApplyStatus(status, poll_msg[t])
    /\ poll_pc' = [poll_pc EXCEPT ![t] = "count"]
    /\ UNCHANGED <<runVars, guiVars, after_pending, workerVars>>
    /\ UNCHANGED <<queue, plugin_error, summaries, poll_msg, poll_finished>>
    /\ UNCHANGED <<teVars, hayVars, fnVars>>

\* lines 156-157: finished = sum(...); self.pb.set(finished / self.total_jobs)
PollCount(t) ==
    /\ poll_pc[t] = "count"
    /\ IF dlg = "alive"
         THEN /\ poll_finished' = [poll_finished EXCEPT ![t] = Finished(status)]
              /\ bar' = Finished(status)
              /\ poll_pc' = [poll_pc EXCEPT ![t] = "running"]
              /\ UNCHANGED <<poll_msg, w_pc>>
         ELSE /\ PollRaise(t)
              /\ bar' = bar
    /\ UNCHANGED <<runVars, dlg, after_pending, tableVars>>
    /\ UNCHANGED <<returncode, spawned, out_written>>
    /\ UNCHANGED <<teVars, hayVars, fnVars>>

\* line 164: if finished == self.total_jobs
BatchFinished(finished) == finished = total_jobs

\* lines 159-164: running = [...]; self.lbl.configure(text=...); the test of
\* line 164 on the local "finished"
PollRunning(t) ==
    /\ poll_pc[t] = "running"
    /\ IF dlg = "alive"
         THEN /\ poll_pc' = [poll_pc EXCEPT
                   ![t] = IF BatchFinished(poll_finished[t]) THEN "summary" ELSE "get"]
              /\ UNCHANGED <<poll_msg, poll_finished, w_pc>>
         ELSE PollRaise(t)
    /\ UNCHANGED <<runVars, guiVars, after_pending, tableVars>>
    /\ UNCHANGED <<returncode, spawned, out_written>>
    /\ UNCHANGED <<teVars, hayVars, fnVars>>

\* lines 165-174: the summary. len(self.plugin_error) == 0 -> "All plugins
\* finished", else "<k>/<n> error(s): <names>"; the label is configured first
SummaryOf(errs) ==
    IF Len(errs) = 0 THEN [kind |-> "all_finished", failed |-> {}]
    ELSE [kind |-> "errors", failed |-> {errs[i] : i \in 1..Len(errs)}]

PollSummary(t) ==
    /\ poll_pc[t] = "summary"
    /\ IF dlg = "alive"
         THEN /\ summaries' = Append(summaries, SummaryOf(plugin_error))
              /\ poll_pc' = [poll_pc EXCEPT ![t] = "destroy"]
              /\ UNCHANGED <<poll_msg, poll_finished, w_pc>>
         ELSE /\ PollRaise(t)
              /\ summaries' = summaries
    /\ UNCHANGED <<runVars, guiVars, after_pending>>
    /\ UNCHANGED <<queue, status, plugin_error, returncode, spawned, out_written>>
    /\ UNCHANGED <<teVars, hayVars, fnVars>>

\* lines 175-177: self.dlg.grab_release(); self.dlg.destroy(); back to line 153
PollDestroy(t) ==
    /\ poll_pc[t] = "destroy"
    /\ IF dlg = "alive"
         THEN /\ dlg' = "destroyed"
              /\ poll_pc' = [poll_pc EXCEPT ![t] = "get"]
              /\ UNCHANGED <<poll_msg, poll_finished, w_pc>>
         ELSE /\ PollRaise(t)
              /\ dlg' = dlg
    /\ UNCHANGED <<runVars, bar, after_pending, tableVars>>
    /\ UNCHANGED <<returncode, spawned, out_written>>
    /\ UNCHANGED <<teVars, hayVars, fnVars>>

\* line 182: if len(self.status) < self.total_jobs
MustReschedule(st) == StatusLen(st) < total_jobs

\* lines 182-183: self.parent.after(200, self._poll_queue); return
PollResched(t) ==
    /\ poll_pc[t] = "resched"
    /\ after_pending' = IF MustReschedule(status) THEN after_pending + 1
                        ELSE after_pending
    /\ poll_pc' = [poll_pc EXCEPT ![t] = "idle"]
    /\ poll_msg' = [poll_msg EXCEPT ![t] = NoMsg]
    /\ poll_finished' = [poll_finished EXCEPT ![t] = 0]
    /\ w_pc' = Returned(t, w_pc)
    /\ UNCHANGED <<runVars, guiVars, tableVars>>
    /\ UNCHANGED <<returncode, spawned, out_written>>
    /\ UNCHANGED <<teVars, hayVars, fnVars>>

NextVol ==
    \/ RunCheckVenv
    \/ RunCheckExe
    \/ RunInstall
    \/ RunRecheckExe
    \/ RunMakeDialog
    \/ RunProbe
    \/ RunStartThread
    \/ RunSchedule
    \/ MainPollStart
    \/ \E p \in Plugins : WorkerPutStart(p)
    \/ \E p \in Plugins : WorkerPopen(p)
    \/ \E p \in Plugins : WorkerCommunicate(p)
    \/ \E p \in Plugins : WorkerWrite(p)
    \/ \E p \in Plugins : WorkerPutOk(p)
    \/ \E p \in Plugins : WorkerPutError(p)
    \/ \E p \in Plugins : WorkerAppendError(p)
    \/ \E t \in Callers : PollGet(t)
    \/ \E t \in Callers : PollSet(t)
    \/ \E t \in Callers : PollCount(t)
    \/ \E t \in Callers : PollRunning(t)
    \/ \E t \in Callers : PollSummary(t)
    \/ \E t \in Callers : PollDestroy(t)
    \/ \E t \in Callers : PollResched(t)


\* ============================================================ ToolExecutor

\* keys of the build dict (183-340), and one identifier that is not a key
ToolIds == {"AmcacheParser.exe", "AppCompatCacheParser.exe", "EvtxECmd\\EvtxECmd.exe",
            "JLECmd.exe", "LECmd.exe", "MFTECmd.exe", "PECmd.exe",
            "RECmd\\RECmd.exe", "SBECmd.exe"}
UnknownTool == "Unknown.exe"
UserNames == 1..MaxUsers

\* OUTPUT_DIR, OUTPUT_USERASSIST, OUTPUT_REGISTRY, OUTPUT_SHELLBAG (32-35)
OUTPUT_DIR == "Output"
OUTPUT_USERASSIST == "Output/UserAssist"
OUTPUT_REGISTRY == "Output/Registry"
OUTPUT_SHELLBAG == "Output/ShellBag"

\* one command: the executable, what it reads, the --csv directory and the
\* --csvf file name (<<>> when the command line has no --csvf)
Cmd(tool, input, csv, csvf) == [exe |-> tool, input |-> input, csv |-> csv, csvf |-> csvf]

\* mutant of PerUser: only the first discovered user gets a command
PerUser_FirstOnly(tool, users, csv, prefix) ==
    IF users = <<>> THEN <<>>
    ELSE <<Cmd(tool, <<"Users", Head(users)>>, csv,
               IF prefix = "" THEN <<>> ELSE <<prefix, Head(users)>>)>>

\* [f(user) for user in users]
RECURSIVE PerUser(_, _, _, _)
PerUser(tool, users, csv, prefix) ==
    IF users = <<>> THEN <<>>
    ELSE <<Cmd(tool, <<"Users", Head(users)>>, csv,
               IF prefix = "" THEN <<>> ELSE <<prefix, Head(users)>>)>>
         \o PerUser(tool, Tail(users), csv, prefix)

\* mutant of MftCommands: the $J command is left out
MftCommands_NoJournal(tool) ==
    <<Cmd(tool, <<"$MFT">>, OUTPUT_DIR, <<"mft_parsed.csv">>)>>

\* the MFTECmd.exe lambda (265-286): one command for $MFT, one for $Extend\$J
MftCommands(tool) ==
    <<Cmd(tool, <<"$MFT">>, OUTPUT_DIR, <<"mft_parsed.csv">>),
      Cmd(tool, <<"$Extend/$J">>, OUTPUT_DIR, <<"usn_parsed.csv">>)>>

\* the lambdas of the build dict (184-339)
Builder(tool, users) ==
    CASE tool = "AmcacheParser.exe" ->
           <<Cmd(tool, <<"Amcache.hve">>, OUTPUT_DIR, <<"amcache_parsed.csv">>)>>
      [] tool = "AppCompatCacheParser.exe" ->
           <<Cmd(tool, <<"SYSTEM">>, OUTPUT_DIR, <<"shimcache_parsed.csv">>)>>
      [] tool = "EvtxECmd\\EvtxECmd.exe" ->
           <<Cmd(tool, <<"winevt/logs">>, OUTPUT_DIR, <<"evtx_parsed.csv">>)>>
      [] tool = "JLECmd.exe" -> PerUser(tool, users, OUTPUT_DIR, "jumplist_")
      [] tool = "LECmd.exe" -> PerUser(tool, users, OUTPUT_DIR, "lnk_")
      [] tool = "MFTECmd.exe" -> MftCommands(tool)
      [] tool = "PECmd.exe" ->
           <<Cmd(tool, <<"prefetch">>, OUTPUT_DIR, <<"prefetch_parsed.csv">>)>>
      [] tool = "RECmd\\RECmd.exe" ->
           PerUser(tool, users, OUTPUT_USERASSIST, "userassist_")
           \o <<Cmd(tool, <<"root">>, OUTPUT_REGISTRY, <<>>)>>
      [] tool = "SBECmd.exe" -> PerUser(tool, users, OUTPUT_SHELLBAG, "")

\* mutant of BuildCommands: an unknown tool ends the build
RECURSIVE BuildCommands_AbortOnUnknown(_, _)
BuildCommands_AbortOnUnknown(tools, users) ==
    IF tools = <<>> \/ Head(tools) \notin ToolIds THEN <<>>
    ELSE Builder(Head(tools), users) \o BuildCommands_AbortOnUnknown(Tail(tools), users)

\* mutant of BuildCommands: the commands of a tool are put before those of the
\* tools selected earlier
RECURSIVE BuildCommands_Prepend(_, _)
BuildCommands_Prepend(tools, users) ==
    IF tools = <<>> THEN <<>>
    ELSE BuildCommands_Prepend(Tail(tools), users)
         \o (IF Head(tools) \in ToolIds THEN Builder(Head(tools), users) ELSE <<>>)

\* lines 342-349: commands.extend(builder()) for each known tool, in order
RECURSIVE BuildCommands(_, _)
BuildCommands(tools, users) ==
    IF tools = <<>> THEN <<>>
    ELSE (IF Head(tools) \in ToolIds THEN Builder(Head(tools), users) ELSE <<>>)
         \o BuildCommands(Tail(tools), users)

\* line 348: logger.warning("Unknown tool selected") for each unknown tool
RECURSIVE UnknownTools(_)
UnknownTools(tools) ==
    IF tools = <<>> THEN <<>>
    ELSE (IF Head(tools) \in ToolIds THEN <<>> ELSE <<Head(tools)>>)
         \o UnknownTools(Tail(tools))

\* sequences over S of length at most n
RECURSIVE SeqsUpTo(_, _)
SeqsUpTo(S, n) ==
    IF n = 0 THEN {<<>>}
    ELSE LET shorter == SeqsUpTo(S, n - 1)
         IN shorter \cup {Append(q, x) : q \in shorter, x \in S}

\* a discovery order: no directory is listed twice
NoRepeat(q) == \A i, j \in 1..Len(q) : i # j => q[i] # q[j]

\* __init__ (41-62)
TEInit ==
    /\ te_tools \in SeqsUpTo(ToolIds \cup {UnknownTool}, MaxSel)
    /\ te_users \in {q \in SeqsUpTo(UserNames, MaxUsers) : NoRepeat(q)}
    /\ te_pc = "new"
    /\ te_dlg = "none"
    /\ te_status = ""
    /\ te_commands = <<>>
    /\ te_total_steps = 0
    /\ te_current_step = 0
    /\ te_idx = 0
    /\ te_live = {}
    /\ te_spawned = 0
    /\ te_rc = -1
    /\ te_failures = 0
    /\ te_error_boxes = 0
    /\ te_finished = 0
    /\ te_warnings = <<>>

\* start (65-68): _create_dialog, then the _run thread is started
TEStart ==
    /\ te_pc = "new"
    /\ te_dlg' = "alive"
    /\ te_status' = "Preparing"
    /\ te_pc' = "build"
    /\ UNCHANGED <<te_tools, te_users, te_commands, te_total_steps, te_current_step,
                   te_idx, te_live, te_spawned, te_rc, te_failures, te_error_boxes,
                   te_finished, te_warnings>>
    /\ UNCHANGED <<volVars, hayVars, fnVars>>

\* _run, lines 117-119
TEBuild ==
    /\ te_pc = "build"
    /\ te_commands' = BuildCommands(te_tools, te_users)
    /\ te_total_steps' = Len(BuildCommands(te_tools, te_users))
    /\ te_warnings' = UnknownTools(te_tools)
    /\ te_idx' = 1
    /\ te_pc' = "loop"
    /\ UNCHANGED <<te_tools, te_users, te_dlg, te_status, te_current_step, te_live,
                   te_spawned, te_rc, te_failures, te_error_boxes, te_finished>>
    /\ UNCHANGED <<volVars, hayVars, fnVars>>

\* _run, lines 121-123: next command of the for loop, or the loop is over
TELoop ==
    /\ te_pc = "loop"
    /\ IF te_idx <= Len(te_commands)
         THEN /\ te_status' = "Running"
              /\ te_pc' = "popen"
         ELSE /\ te_status' = te_status
              /\ te_pc' = "finish"
    /\ UNCHANGED <<te_tools, te_users, te_dlg, te_commands, te_total_steps,
                   te_current_step, te_idx, te_live, te_spawned, te_rc, te_failures,
                   te_error_boxes, te_finished, te_warnings>>
    /\ UNCHANGED <<volVars, hayVars, fnVars>>

\* _execute, line 144: Popen creates the process, or raises OSError (missing or
\* unusable executable), which neither _execute nor _run catches
TEPopen ==
    /\ te_pc = "popen"
    /\ \E created \in BOOLEAN :
         IF created
           THEN /\ te_live' = te_live \cup {te_idx}
                /\ te_spawned' = te_spawned + 1
                /\ te_pc' = "wait"
           ELSE /\ te_pc' = "crashed"
                /\ UNCHANGED <<te_live, te_spawned>>
    /\ UNCHANGED <<te_tools, te_users, te_dlg, te_status, te_commands, te_total_steps,
                   te_current_step, te_idx, te_rc, te_failures, te_error_boxes,
                   te_finished, te_warnings>>
    /\ UNCHANGED <<volVars, hayVars, fnVars>>

\* mutant of AfterWait: the loop goes on without waiting for the process
AfterWait_NoWait(live, i) == live

\* the processes still alive once proc.wait() has returned for command i
AfterWait(live, i) == live \ {i}

\* _execute, lines 153-157: the output is read to its end, proc.wait() returns
\* the exit status; non-zero raises CalledProcessError
TEWait ==
    /\ te_pc = "wait"
    /\ \E rc \in ExitCodes :
         /\ te_rc' = rc
         /\ te_failures' = IF rc # 0 THEN te_failures + 1 ELSE te_failures
         /\ te_pc' = IF rc # 0 THEN "error" ELSE "progress"
    /\ te_live' = AfterWait(te_live, te_idx)
    /\ UNCHANGED <<te_tools, te_users, te_dlg, te_status, te_commands, te_total_steps,
                   te_current_step, te_idx, te_spawned, te_error_boxes, te_finished,
                   te_warnings>>
    /\ UNCHANGED <<volVars, hayVars, fnVars>>

\* mutant of AfterError: a failed command ends the loop
AfterError_Abort == "finish"

\* where _run goes once the except clause of _execute (159-169) is done
AfterError == "progress"

\* _execute, lines 159-169: the failure is logged and shown; _execute returns
TEError ==
    /\ te_pc = "error"
    /\ te_status' = "ERROR"
    /\ te_error_boxes' = te_error_boxes + 1
    /\ te_pc' = AfterError
    /\ UNCHANGED <<te_tools, te_users, te_dlg, te_commands, te_total_steps,
                   te_current_step, te_idx, te_live, te_spawned, te_rc, te_failures,
                   te_finished, te_warnings>>
    /\ UNCHANGED <<volVars, hayVars, fnVars>>

\* _safe_progress (97-102): if self._bar and self._total_steps: step += 1
SafeProgress(step, total) == IF total # 0 THEN step + 1 ELSE step

\* _run, line 125, then the for loop takes the next command
TEProgress ==
    /\ te_pc = "progress"
    /\ te_current_step' = SafeProgress(te_current_step, te_total_steps)
    /\ te_idx' = te_idx + 1
    /\ te_rc' = -1
    /\ te_pc' = "loop"
    /\ UNCHANGED <<te_tools, te_users, te_dlg, te_status, te_commands, te_total_steps,
                   te_live, te_spawned, te_failures, te_error_boxes, te_finished,
                   te_warnings>>
    /\ UNCHANGED <<volVars, hayVars, fnVars>>

\* _run, lines 127-138: "All tools finished", the dialog is closed after 1 s
TEFinish ==
    /\ te_pc = "finish"
    /\ te_status' = "All tools finished"
    /\ te_finished' = te_finished + 1
    /\ te_dlg' = "closing"
    /\ te_pc' = "done"
    /\ UNCHANGED <<te_tools, te_users, te_commands, te_total_steps, te_current_step,
                   te_idx, te_live, te_spawned, te_rc, te_failures, te_error_boxes,
                   te_warnings>>
    /\ UNCHANGED <<volVars, hayVars, fnVars>>

NextTE ==
    \/ TEStart
    \/ TEBuild
    \/ TELoop
    \/ TEPopen
    \/ TEWait
    \/ TEError
    \/ TEProgress
    \/ TEFinish


\* ======================================================== HayabusaExecutor

\* characters of the output stream: ESC (0x1B), CSI (0x9B), "[", a parameter
\* byte, an intermediate byte (the space), a final byte, CR and LF
Chars == {"ESC", "CSI", "[", "1", " ", "a", "CR", "LF"}

\* the classes of ANSI_RE (line 29): [0-?], [ -/], [@-~]
IsParam(c) == c = "1"
IsInter(c) == c = " "
IsFinal(c) == c \in {"a", "["}

\* first index >= i of q whose character does not satisfy the class
RECURSIVE SkipParams(_, _)
SkipParams(q, i) == IF i <= Len(q) /\ IsParam(q[i]) THEN SkipParams(q, i + 1) ELSE i
RECURSIVE SkipInters(_, _)
SkipInters(q, i) == IF i <= Len(q) /\ IsInter(q[i]) THEN SkipInters(q, i + 1) ELSE i

\* ANSI_RE matched at index i of q: the index of its final byte, 0 if no match
AnsiMatch(q, i) ==
    LET body == IF q[i] = "CSI" THEN i + 1
                ELSE IF q[i] = "ESC" /\ i < Len(q) /\ q[i + 1] = "[" THEN i + 2
                ELSE 0
        fin == IF body = 0 THEN 0 ELSE SkipInters(q, SkipParams(q, body))
    IN IF body # 0 /\ fin <= Len(q) /\ IsFinal(q[fin]) THEN fin ELSE 0

\* ANSI_RE.sub("", q)
RECURSIVE AnsiSubFrom(_, _)
AnsiSubFrom(q, i) ==
    IF i > Len(q) THEN <<>>
    ELSE IF AnsiMatch(q, i) # 0 THEN AnsiSubFrom(q, AnsiMatch(q, i) + 1)
    ELSE <<q[i]>> \o AnsiSubFrom(q, i + 1)

AnsiSub(q) == AnsiSubFrom(q, 1)

\* str.strip(): of these characters only the space is whitespace
RECURSIVE LStrip(_)
LStrip(q) == IF q # <<>> /\ Head(q) = " " THEN LStrip(Tail(q)) ELSE q
RECURSIVE RStrip(_)
RStrip(q) == IF q # <<>> /\ q[Len(q)] = " " THEN RStrip(SubSeq(q, 1, Len(q) - 1)) ELSE q
Strip(q) == RStrip(LStrip(q))

\* __init__ (36-49); whether the executable is on disk is the environment's
HayInit ==
    /\ hay_exe_present \in BOOLEAN
    /\ hay_pc = "new"
    /\ hay_dlg = "none"
    /\ hay_status = ""
    /\ hay_answer = ""
    /\ hay_installs = 0
    /\ hay_builds = 0
    /\ hay_spawned = 0
    /\ hay_written = <<>>
    /\ hay_stream = <<>>
    /\ hay_buf = <<>>
    /\ hay_outbox = <<>>
    /\ hay_boxes = <<>>

\* start (52-55): _create_dialog, then the _run thread is started
HayStart ==
    /\ hay_pc = "new"
    /\ hay_dlg' = "alive"
    /\ hay_status' = "Running"
    /\ hay_pc' = "check_exe"
    /\ UNCHANGED <<hay_exe_present, hay_answer, hay_installs, hay_builds, hay_spawned,
                   hay_written, hay_stream, hay_buf, hay_outbox, hay_boxes>>
    /\ UNCHANGED <<volVars, teVars, fnVars>>

\* _run, lines 95-100
HayCheckExe ==
    /\ hay_pc = "check_exe"
    /\ hay_pc' = IF hay_exe_present THEN "build" ELSE "prompt"
    /\ UNCHANGED <<hay_exe_present, hay_dlg, hay_status, hay_answer, hay_installs, hay_builds,
                   hay_spawned, hay_written, hay_stream, hay_buf, hay_outbox, hay_boxes>>
    /\ UNCHANGED <<volVars, teVars, fnVars>>

\* what CTkMessagebox(...).get() may return: a button, or None (window closed)
Answers == {"Yes", "No", "None"}

\* mutant of Accepted: only an explicit "No" declines
Accepted_UnlessNo(answer) == answer # "No"

\* line 108: .get() == "Yes"
Accepted(answer) == answer = "Yes"

\* _run, lines 101-112: the install prompt
HayPrompt ==
    /\ hay_pc = "prompt"
    /\ \E answer \in Answers :
         /\ hay_answer' = answer
         /\ IF Accepted(answer)
              THEN /\ hay_pc' = "install"
                   /\ hay_dlg' = hay_dlg
              ELSE /\ hay_pc' = "ret_declined"
                   /\ hay_dlg' = "destroyed"
    /\ hay_boxes' = Append(hay_boxes, "Executable not found - download now?")
    /\ UNCHANGED <<hay_exe_present, hay_status, hay_installs, hay_builds, hay_spawned,
                   hay_written, hay_stream, hay_buf, hay_outbox>>
    /\ UNCHANGED <<volVars, teVars, fnVars>>

\* _install (190-224): the archive is fetched and extracted (the executable
\* appears), or HTTPError / URLError / BadZipFile is caught and shown, or
\* another exception (OSError, ...) ends the thread
HayInstallOutcomes == {"extracted", "failed", "raised"}

\* _run, line 109
HayInstall ==
    /\ hay_pc = "install"
    /\ hay_installs' = hay_installs + 1
    /\ \E o \in HayInstallOutcomes :
         /\ hay_exe_present' = (o = "extracted")
         /\ hay_status' = IF o = "failed" THEN "Downloading" ELSE "Extracting"
         /\ hay_pc' = IF o = "raised" THEN "crashed" ELSE "build"
         /\ hay_boxes' = IF o = "extracted"
                           THEN Append(hay_boxes, "Hayabusa downloaded and extracted.")
                         ELSE IF o = "failed" THEN Append(hay_boxes, "Download failed")
                         ELSE hay_boxes
    /\ UNCHANGED <<hay_dlg, hay_answer, hay_builds, hay_spawned, hay_written, hay_stream, hay_buf,
                   hay_outbox>>
    /\ UNCHANGED <<volVars, teVars, fnVars>>

\* _run, lines 114-116: cmd = self._build_command()
HayBuild ==
    /\ hay_pc = "build"
    /\ hay_builds' = hay_builds + 1
    /\ hay_status' = "Hayabusa is starting"
    /\ hay_pc' = "popen"
    /\ UNCHANGED <<hay_exe_present, hay_dlg, hay_answer, hay_installs, hay_spawned,
                   hay_written, hay_stream, hay_buf, hay_outbox, hay_boxes>>
    /\ UNCHANGED <<volVars, teVars, fnVars>>

\* line 129, text=True: proc.stdout is a text stream in universal-newlines
\* mode, so read() gives LF for every CR LF pair and for every other CR
RECURSIVE UniversalNewlines(_)
UniversalNewlines(s) ==
    IF s = <<>> THEN <<>>
    ELSE IF Head(s) = "CR"
      THEN IF Len(s) > 1 /\ s[2] = "LF"
             THEN <<"LF">> \o UniversalNewlines(Tail(Tail(s)))
             ELSE <<"LF">> \o UniversalNewlines(Tail(s))
    ELSE <<Head(s)>> \o UniversalNewlines(Tail(s))

\* _run, lines 118-132 and 178-186: Popen creates the process, which will write
\* some stream; without the executable Popen raises FileNotFoundError, which the
\* except clause of line 166 does not catch: only the finally clause runs
HayPopen ==
    /\ hay_pc = "popen"
    /\ IF hay_exe_present
         THEN /\ hay_spawned' = hay_spawned + 1
              /\ hay_written' \in SeqsUpTo(Chars, MaxStream)
              /\ hay_stream' = UniversalNewlines(hay_written')
              /\ hay_pc' = "read"
              /\ hay_status' = hay_status
         ELSE /\ hay_pc' = "crashed"
              /\ hay_status' = "Terminated."
              /\ UNCHANGED <<hay_spawned, hay_written, hay_stream>>
    /\ UNCHANGED <<hay_exe_present, hay_dlg, hay_answer, hay_installs, hay_builds,
                   hay_buf, hay_outbox, hay_boxes>>
    /\ UNCHANGED <<volVars, teVars, fnVars>>

\* mutant of DeliverSegment: a segment is delivered even when nothing is left
\* of it
DeliverSegment_KeepBlank(out, buf) == Append(out, Strip(AnsiSub(buf)))

\* lines 141-145: a terminator ends a segment; it is delivered if something is
\* left of it once the escape sequences and the surrounding blanks are removed
DeliverSegment(out, buf) ==
    IF Strip(AnsiSub(buf)) # <<>> THEN Append(out, Strip(AnsiSub(buf))) ELSE out

\* lines 136-139: end of stream; a non-empty buf is delivered without strip()
DeliverRest(out, buf) == IF buf # <<>> THEN Append(out, AnsiSub(buf)) ELSE out

\* _run, lines 134-147: one proc.stdout.read(1)
HayRead ==
    /\ hay_pc = "read"
    /\ IF hay_stream = <<>>
         THEN /\ hay_outbox' = DeliverRest(hay_outbox, hay_buf)
              /\ hay_buf' = hay_buf
              /\ hay_pc' = "wait"
              /\ hay_stream' = hay_stream
         ELSE /\ hay_stream' = Tail(hay_stream)
              /\ hay_pc' = hay_pc
              /\ IF Head(hay_stream) \in {"CR", "LF"}
                   THEN /\ hay_outbox' = DeliverSegment(hay_outbox, hay_buf)
                        /\ hay_buf' = <<>>
                   ELSE /\ hay_buf' = Append(hay_buf, Head(hay_stream))
                        /\ hay_outbox' = hay_outbox
    /\ UNCHANGED <<hay_exe_present, hay_dlg, hay_status, hay_answer, hay_installs, hay_builds,
                   hay_spawned, hay_written, hay_boxes>>
    /\ UNCHANGED <<volVars, teVars, fnVars>>

\* _run, lines 149-186: proc.wait(); zero -> success box, non-zero ->
\* CalledProcessError -> error line and box; then the finally clause
HayWait ==
    /\ hay_pc = "wait"
    /\ \E rc \in ExitCodes :
         IF rc = 0
           THEN /\ hay_boxes' = Append(hay_boxes, "Hayabusa completed successfully.")
                /\ hay_outbox' = hay_outbox
                /\ hay_pc' = "done_ok"
           ELSE /\ hay_boxes' = Append(hay_boxes, "Hayabusa failed")
                /\ hay_outbox' = Append(hay_outbox, <<"ERROR">>)
                /\ hay_pc' = "done_error"
    /\ hay_status' = "Terminated."
    /\ hay_buf' = <<>>
    /\ UNCHANGED <<hay_exe_present, hay_dlg, hay_answer, hay_installs, hay_builds,
                   hay_spawned, hay_written, hay_stream>>
    /\ UNCHANGED <<volVars, teVars, fnVars>>

NextHay ==
    \/ HayStart
    \/ HayCheckExe
    \/ HayPrompt
    \/ HayInstall
    \/ HayBuild
    \/ HayPopen
    \/ HayRead
    \/ HayWait

\* =========================================================== specifications

\* no VolatilityRunner has been run
VolIdle ==
    /\ venv_present = TRUE
    /\ vol_exe_present = TRUE
    /\ run_pc = "idle"
    /\ probe_rc = -1
    /\ next_plugin = 1
    /\ dlg = "none"
    /\ bar = 0
    /\ boxes = {}
    /\ queue = <<>>
    /\ status = [p \in Plugins |-> "none"]
    /\ plugin_error = <<>>
    /\ after_pending = 0
    /\ w_pc = [p \in Plugins |-> "unstarted"]
    /\ returncode = [p \in Plugins |-> -1]
    /\ spawned = [p \in Plugins |-> 0]
    /\ out_written = [p \in Plugins |-> FALSE]
    /\ poll_pc = [t \in Callers |-> "idle"]
    /\ poll_msg = [t \in Callers |-> NoMsg]
    /\ poll_finished = [t \in Callers |-> 0]
    /\ summaries = <<>>

\* no ToolExecutor has been started
TEIdle ==
    /\ te_tools = <<>>
    /\ te_users = <<>>
    /\ te_pc = "idle"
    /\ te_dlg = "none"
    /\ te_status = ""
    /\ te_commands = <<>>
    /\ te_total_steps = 0
    /\ te_current_step = 0
    /\ te_idx = 0
    /\ te_live = {}
    /\ te_spawned = 0
    /\ te_rc = -1
    /\ te_failures = 0
    /\ te_error_boxes = 0
    /\ te_finished = 0
    /\ te_warnings = <<>>

\* no HayabusaExecutor has been started
HayIdle ==
    /\ hay_exe_present = TRUE
    /\ hay_pc = "idle"
    /\ hay_dlg = "none"
    /\ hay_status = ""
    /\ hay_answer = ""
    /\ hay_installs = 0
    /\ hay_builds = 0
    /\ hay_spawned = 0
    /\ hay_written = <<>>
    /\ hay_stream = <<>>
    /\ hay_buf = <<>>
    /\ hay_outbox = <<>>
    /\ hay_boxes = <<>>

\* ------------------------------------------- utils.list_user_directories
\* names an entry of the scanned folder may have
EntryNames == {"Default", "Public", "alice", "bob"}

\* os.DirEntry: name and is_dir()
Entry == [name : EntryNames, is_dir : BOOLEAN]

\* what base_path may be: a folder, nothing, a plain file
BaseKinds == {"dir", "missing", "file"}

\* mutant of excluded_dirs: "Public" is forgotten
excluded_dirs_DefaultOnly == {"Default"}

\* line 10
excluded_dirs == {"Default", "Public"}

\* lines 12-16: the list comprehension over os.scandir(base_path)
RECURSIVE ScanNames(_)
ScanNames(entries) ==
    IF entries = <<>> THEN <<>>
    ELSE LET entry == Head(entries)
         IN (IF entry.is_dir /\ entry.name \notin excluded_dirs
               THEN <<entry.name>> ELSE <<>>) \o ScanNames(Tail(entries))

\* lines 9-19: os.scandir raises FileNotFoundError for a missing base_path,
\* which is caught (17-19); NotADirectoryError for a plain file is not caught
list_user_directories(base, entries) ==
    IF base = "missing" THEN [pc |-> "returned", value |-> <<>>]
    ELSE IF base = "file" THEN [pc |-> "raised", value |-> <<>>]
    ELSE [pc |-> "returned", value |-> ScanNames(entries)]

\* a folder content: no two entries have the same name
FsInit ==
    /\ fs_base \in BaseKinds
    /\ fs_entries \in {q \in SeqsUpTo(Entry, MaxEntries) :
                          /\ fs_base # "dir" => q = <<>>
                          /\ \A i, j \in 1..Len(q) : i # j => q[i].name # q[j].name}
    /\ fs_pc = "call"
    /\ fs_result = <<>>

\* one call of list_user_directories(base_path)
ListCall ==
    /\ fs_pc = "call"
    /\ fs_pc' = list_user_directories(fs_base, fs_entries).pc
    /\ fs_result' = list_user_directories(fs_base, fs_entries).value
    /\ UNCHANGED <<fs_base, fs_entries, bcVars, exVars, dgVars, appVars>>
    /\ UNCHANGED <<volVars, teVars, hayVars>>

\* ------------------------------------------------- the command builders
\* the clock of datetime.now() advances in ticks shorter than one second
TicksPerSecond == 2

\* mutant of Timestamp: the time is kept to the tick
Timestamp_Ticks(t) == t

\* hayabusa_executor.py line 232: datetime.now().strftime("%Y%m%d%H%M%S"),
\* the time of the call cut to whole seconds
Timestamp(t) == t \div TicksPerSecond

\* hayabusa_executor.py lines 230-240, called when the clock shows t
build_command(t) ==
    [exe |-> "hayabusa.exe",
     sub |-> "csv-timeline",
     d   |-> <<"Windows", "System32", "winevt", "logs">>,
     o   |-> <<"Output", "Hayabusa", "hayabusa_", Timestamp(t), ".csv">>]

\* both builders are about to be called twice, for one selection and one
\* list of discovered users
BcInit ==
    /\ bc_pc = "te1"
    /\ bc_clock = 0
    /\ bc_te = <<>>
    /\ bc_hay = <<>>

\* time passes
BcTick ==
    /\ bc_pc \notin {"idle", "done"}
    /\ bc_clock < MaxTicks
    /\ bc_clock' = bc_clock + 1
    /\ UNCHANGED <<bc_pc, bc_te, bc_hay, fsVars, exVars, dgVars, appVars>>
    /\ UNCHANGED <<volVars, teVars, hayVars>>

\* one call of ToolExecutor._build_commands (tool_executor.py 173-349)
BcCallTE ==
    /\ bc_pc \in {"te1", "te2"}
    /\ bc_te' = Append(bc_te, BuildCommands(te_tools, te_users))
    /\ bc_pc' = IF bc_pc = "te1" THEN "te2" ELSE "hay1"
    /\ UNCHANGED <<bc_clock, bc_hay, fsVars, exVars, dgVars, appVars>>
    /\ UNCHANGED <<volVars, teVars, hayVars>>

\* one call of HayabusaExecutor._build_command; "at" keeps the time of the call
BcCallHay ==
    /\ bc_pc \in {"hay1", "hay2"}
    /\ bc_hay' = Append(bc_hay, [at |-> bc_clock, cmd |-> build_command(bc_clock)])
    /\ bc_pc' = IF bc_pc = "hay1" THEN "hay2" ELSE "done"
    /\ UNCHANGED <<bc_clock, bc_te, fsVars, exVars, dgVars, appVars>>
    /\ UNCHANGED <<volVars, teVars, hayVars>>

\* list_user_directories is not being called
FsIdle ==
    /\ fs_base = "missing"
    /\ fs_entries = <<>>
    /\ fs_pc = "idle"
    /\ fs_result = <<>>

\* no builder is being called
BcIdle ==
    /\ bc_pc = "idle"
    /\ bc_clock = 0
    /\ bc_te = <<>>
    /\ bc_hay = <<>>

\* ------------------------------- ToolExecutor: the lines of the output
\* texts a process may write as one line (" " is trailing whitespace)
LineTexts == {<<"a">>, <<"1", " ">>}

\* what one child process does: the lines it writes to the pipe (stdout and
\* stderr share it, line 147) and the status it exits with
ProcScripts == [lines : SeqsUpTo(LineTexts, MaxOutput), rc : ExitCodes]

\* number of lines the processes of a batch write
RECURSIVE TotalLines(_)
TotalLines(script) ==
    IF script = <<>> THEN 0 ELSE Len(Head(script).lines) + TotalLines(Tail(script))

\* the text of f"ERROR: {exc!s}" (line 162)
ErrorLine == <<"ERROR">>

\* the callback _append of _safe_append (107-111), bound to its line
AppendCallback(line) == [op |-> "append", line |-> line]
\* the callback self._dlg.destroy (line 130)
DestroyCallback == [op |-> "destroy", line |-> <<>>]

\* mutant of Schedule: the newest callback runs first
Schedule_Newest(pending, cb) == <<cb>> \o pending

\* widget.after(ms, cb): Tk runs the callbacks by due time and, for equal due
\* times, in the order they were scheduled; the delays used are 0 and 1000 ms
\* and the 1000 ms one is scheduled last
Schedule(pending, cb) == Append(pending, cb)

\* self._outbox.insert("end", line + "\n") (line 109)
InsertEnd(box, line) == Append(box, line)

\* __init__ (41-62) and start (65-68): the dialog exists, _run has built its
\* commands; what the processes will write is the environment's
ExInit ==
    /\ ex_script \in {sc \in SeqsUpTo(ProcScripts, MaxCmds) : TotalLines(sc) <= MaxOutput}
    /\ ex_pc = "loop"
    /\ ex_idx = 1
    /\ ex_pos = 0
    /\ ex_after = <<>>
    /\ ex_dlg = "alive"
    /\ ex_outbox = <<>>

\* _run, lines 121-124 and 144-152: the next command is started, or the loop
\* is over
ExLoop ==
    /\ ex_pc = "loop"
    /\ IF ex_idx <= Len(ex_script)
         THEN /\ ex_pc' = "read"
              /\ ex_pos' = 1
         ELSE /\ ex_pc' = "finish"
              /\ ex_pos' = ex_pos
    /\ UNCHANGED <<ex_script, ex_idx, ex_after, ex_dlg, ex_outbox>>
    /\ UNCHANGED <<fsVars, bcVars, dgVars, appVars>>
    /\ UNCHANGED <<volVars, teVars, hayVars>>

\* _execute, lines 153-155: one line is read, stripped on the right and
\* given to _safe_append, which schedules _append with after(0)
ExReadLine ==
    /\ ex_pc = "read"
    /\ ex_pos <= Len(ex_script[ex_idx].lines)
    /\ ex_after' = Schedule(ex_after, AppendCallback(RStrip(ex_script[ex_idx].lines[ex_pos])))
    /\ ex_pos' = ex_pos + 1
    /\ UNCHANGED <<ex_script, ex_pc, ex_idx, ex_dlg, ex_outbox>>
    /\ UNCHANGED <<fsVars, bcVars, dgVars, appVars>>
    /\ UNCHANGED <<volVars, teVars, hayVars>>

\* _execute, lines 156-157, and _run, line 125: the stream is at its end,
\* proc.wait() gives the exit status; non-zero raises CalledProcessError
ExWait ==
    /\ ex_pc = "read"
    /\ ex_pos > Len(ex_script[ex_idx].lines)
    /\ IF ex_script[ex_idx].rc # 0
         THEN /\ ex_pc' = "error"
              /\ ex_idx' = ex_idx
         ELSE /\ ex_pc' = "loop"
              /\ ex_idx' = ex_idx + 1
    /\ UNCHANGED <<ex_script, ex_pos, ex_after, ex_dlg, ex_outbox>>
    /\ UNCHANGED <<fsVars, bcVars, dgVars, appVars>>
    /\ UNCHANGED <<volVars, teVars, hayVars>>

\* _execute, lines 159-169, and _run, line 125: the "ERROR" line is given to
\* _safe_append and the loop takes the next command
ExError ==
    /\ ex_pc = "error"
    /\ ex_after' = Schedule(ex_after, AppendCallback(ErrorLine))
    /\ ex_idx' = ex_idx + 1
    /\ ex_pc' = "loop"
    /\ UNCHANGED <<ex_script, ex_pos, ex_dlg, ex_outbox>>
    /\ UNCHANGED <<fsVars, bcVars, dgVars, appVars>>
    /\ UNCHANGED <<volVars, teVars, hayVars>>

\* _run, lines 127-138: the dialog is to be destroyed one second later
ExFinish ==
    /\ ex_pc = "finish"
    /\ ex_after' = Schedule(ex_after, DestroyCallback)
    /\ ex_pc' = "done"
    /\ UNCHANGED <<ex_script, ex_idx, ex_pos, ex_dlg, ex_outbox>>
    /\ UNCHANGED <<fsVars, bcVars, dgVars, appVars>>
    /\ UNCHANGED <<volVars, teVars, hayVars>>

\* the Tk main loop runs the callback that is due first: _append (107-111)
\* inserts its line at the end of the text, and fails with TclError once the
\* window is gone; destroy removes the window
ExMainLoop ==
    /\ ex_after # <<>>
    /\ ex_after' = Tail(ex_after)
    /\ IF Head(ex_after).op = "append"
         THEN /\ ex_outbox' = IF ex_dlg = "alive"
                                THEN InsertEnd(ex_outbox, Head(ex_after).line)
                                ELSE ex_outbox
              /\ ex_dlg' = ex_dlg
         ELSE /\ ex_dlg' = IF ex_dlg = "alive" THEN "destroyed" ELSE ex_dlg
              /\ ex_outbox' = ex_outbox
    /\ UNCHANGED <<ex_script, ex_pc, ex_idx, ex_pos>>
    /\ UNCHANGED <<fsVars, bcVars, dgVars, appVars>>
    /\ UNCHANGED <<volVars, teVars, hayVars>>

\* the operator closes the window: _create_dialog (71-89) installs no
\* WM_DELETE_WINDOW handler, so the toplevel and its text box are destroyed
ExClose ==
    /\ ex_dlg = "alive"
    /\ ex_dlg' = "closed"
    /\ UNCHANGED <<ex_script, ex_pc, ex_idx, ex_pos, ex_after, ex_outbox>>
    /\ UNCHANGED <<fsVars, bcVars, dgVars, appVars>>
    /\ UNCHANGED <<volVars, teVars, hayVars>>

NextOut ==
    \/ ExLoop
    \/ ExReadLine
    \/ ExWait
    \/ ExError
    \/ ExFinish
    \/ ExMainLoop
    \/ ExClose

\* ------------------------- VolatilityRunner: the diagnostic of a failure
\* the 120 of err.stderr[:120]
DiagLimit == 120

\* a text of n characters; a character is written as its offset in the text,
\* so that two parts of a text are equal only if they are the same part
TextOf(n) == [i \in 1..n |-> i]

\* text[:120]
Sliced(text) == SubSeq(text, 1, IF Len(text) < DiagLimit THEN Len(text) ELSE DiagLimit)

\* f"error: {err.stderr[:120]}..." (line 145)
ErrorStatus(text) == [head |-> "error: ", body |-> Sliced(text), tail |-> "..."]

NoStatus == [head |-> "", body |-> <<>>, tail |-> ""]

\* lines 133-137: the process has exited non-zero, communicate() has returned
\* its error output and CalledProcessError carries it
DgInit ==
    /\ dg_stderr \in {TextOf(n) : n \in 0..MaxErr}
    /\ dg_pc = "raised"
    /\ dg_queued = NoStatus
    /\ dg_status = NoStatus

\* lines 144-146: the except clause puts the status text on the queue
DgPut ==
    /\ dg_pc = "raised"
    /\ dg_queued' = ErrorStatus(dg_stderr)
    /\ dg_pc' = "queued"
    /\ UNCHANGED <<dg_stderr, dg_status>>
    /\ UNCHANGED <<fsVars, bcVars, exVars, appVars>>
    /\ UNCHANGED <<volVars, teVars, hayVars>>

\* _poll_queue, lines 153-154: self.status[plugin] = status
DgRecord ==
    /\ dg_pc = "queued"
    /\ dg_status' = dg_queued
    /\ dg_pc' = "recorded"
    /\ UNCHANGED <<dg_stderr, dg_queued>>
    /\ UNCHANGED <<fsVars, bcVars, exVars, appVars>>
    /\ UNCHANGED <<volVars, teVars, hayVars>>

NextDiag == DgPut \/ DgRecord

\* no diagnostic is followed
DgIdle ==
    /\ dg_stderr = <<>>
    /\ dg_pc = "idle"
    /\ dg_queued = NoStatus
    /\ dg_status = NoStatus

\* --------------------------------------- the main window: several runs
RunJobs == 1..MaxRunJobs          \* keys of self.PLUGINS
RunIds == 1..MaxRuns

\* a status message; "run" names the runner whose worker thread wrote it and
\* is not part of the tuple (plugin, status) of the code
Message(r, p, st) == [run |-> r, plugin |-> p, status |-> st]
\* the key is absent from self.status
NoEntry == [run |-> 0, status |-> "none"]

\* VolatilityRunner.__init__ (25-53) and run(): the fields of a new object,
\* one worker thread per plugin not yet at its first line
NewVolatilityRunner ==
    [queue        |-> <<>>,
     status       |-> [p \in RunJobs |-> NoEntry],
     plugin_error |-> <<>>,
     w_pc         |-> [p \in RunJobs |-> "unstarted"],
     bar          |-> 0,
     summary      |-> <<>>]

\* the tool lists the check boxes of the main window can give (gui.py, 336)
Selections == {<<"PECmd.exe">>, <<"MFTECmd.exe">>, <<"PECmd.exe", "MFTECmd.exe">>}

\* ToolExecutor.__init__ (41-62)
NewToolExecutor(tools) ==
    [tools        |-> tools,
     pc           |-> "build",
     commands     |-> <<>>,
     total_steps  |-> 0,
     current_step |-> 0,
     idx          |-> 0]

\* mutant of OwnerOf: the queue, the table and the error list are those of
\* the first runner, shared by all
OwnerOf_First(r) == 1

\* the object "self" stands for in the threads and callbacks of runner r:
\* queue, status and plugin_error are set on the instance by __init__ (32-53)
OwnerOf(r) == r

\* the main window is open and no run has been started
AppInit ==
    /\ app_vol = <<>>
    /\ app_te = <<>>

\* gui.py, _run_volatility (365-377): VolatilityRunner(...).run()
RunVolatility ==
    /\ Len(app_vol) + Len(app_te) < MaxRuns
    /\ app_vol' = Append(app_vol, NewVolatilityRunner)
    /\ UNCHANGED app_te
    /\ UNCHANGED <<fsVars, bcVars, exVars, dgVars>>
    /\ UNCHANGED <<volVars, teVars, hayVars>>

\* gui.py, _run_selected_tools (334-362): ToolExecutor(...).start()
RunSelectedTools ==
    /\ Len(app_vol) + Len(app_te) < MaxRuns
    /\ \E tools \in Selections : app_te' = Append(app_te, NewToolExecutor(tools))
    /\ UNCHANGED app_vol
    /\ UNCHANGED <<fsVars, bcVars, exVars, dgVars>>
    /\ UNCHANGED <<volVars, teVars, hayVars>>

\* _worker, line 122: self.queue.put((plugin, "start"))
AppWorkerStart(r, p) ==
    /\ app_vol[r].w_pc[p] = "unstarted"
    /\ app_vol' = [app_vol EXCEPT
                     ![OwnerOf(r)].queue = Append(@, Message(r, p, "start")),
                     ![r].w_pc[p] = "started"]
    /\ UNCHANGED app_te
    /\ UNCHANGED <<fsVars, bcVars, exVars, dgVars>>
    /\ UNCHANGED <<volVars, teVars, hayVars>>

\* _worker, lines 125-146: the process exits; "ok" is put on the queue, or
\* the error status is put and the plugin is added to self.plugin_error
AppWorkerEnd(r, p) ==
    /\ app_vol[r].w_pc[p] = "started"
    /\ \E rc \in ExitCodes :
         IF rc = 0
           THEN app_vol' = [app_vol EXCEPT
                              ![OwnerOf(r)].queue = Append(@, Message(r, p, "ok")),
                              ![r].w_pc[p] = "done"]
           ELSE app_vol' = [app_vol EXCEPT
                              ![OwnerOf(r)].queue = Append(@, Message(r, p, "error")),
                              ![OwnerOf(r)].plugin_error = Append(@, [run |-> r, plugin |-> p]),
                              ![r].w_pc[p] = "done"]
    /\ UNCHANGED app_te
    /\ UNCHANGED <<fsVars, bcVars, exVars, dgVars>>
    /\ UNCHANGED <<volVars, teVars, hayVars>>

\* the table once a message has been applied (line 154)
AppApply(table, msg) ==
    [table EXCEPT ![msg.plugin] = [run |-> msg.run, status |-> msg.status]]

\* line 156: the number of entries that are "ok" or start with "error"
AppFinished(table) == Cardinality({p \in RunJobs : table[p].status \in {"ok", "error"}})

\* _poll_queue of runner r (149-180), one turn of its while loop: a message
\* is taken, the table and the bar are updated and, when every plugin has
\* finished, the summary is shown with the plugins of self.plugin_error
AppPoll(r) ==
    LET o == OwnerOf(r)
        msg == Head(app_vol[o].queue)
        table == AppApply(app_vol[o].status, msg)
    IN /\ app_vol[o].queue # <<>>
       /\ app_vol' = [app_vol EXCEPT
                        ![o].queue = Tail(@),
                        ![o].status = table,
                        ![r].bar = AppFinished(table),
                        ![r].summary = IF AppFinished(table) = MaxRunJobs
                                         THEN Append(@, app_vol[o].plugin_error)
                                         ELSE @]
       /\ UNCHANGED app_te
       /\ UNCHANGED <<fsVars, bcVars, exVars, dgVars>>
       /\ UNCHANGED <<volVars, teVars, hayVars>>

\* ToolExecutor._run of executor r, lines 117-119; the triage folder has no
\* user directory
AppBuild(r) ==
    /\ app_te[r].pc = "build"
    /\ app_te' = [app_te EXCEPT
                    ![r].commands = BuildCommands(app_te[r].tools, <<>>),
                    ![r].total_steps = Len(BuildCommands(app_te[r].tools, <<>>)),
                    ![r].idx = 1,
                    ![r].pc = "loop"]
    /\ UNCHANGED app_vol
    /\ UNCHANGED <<fsVars, bcVars, exVars, dgVars>>
    /\ UNCHANGED <<volVars, teVars, hayVars>>

\* ToolExecutor._run of executor r, lines 121-127: one command is executed
\* and _safe_progress counts it, or the loop is over
AppStep(r) ==
    /\ app_te[r].pc = "loop"
    /\ IF app_te[r].idx <= Len(app_te[r].commands)
         THEN app_te' = [app_te EXCEPT
                           ![r].current_step =
                               SafeProgress(app_te[r].current_step, app_te[r].total_steps),
                           ![r].idx = @ + 1]
         ELSE app_te' = [app_te EXCEPT ![r].pc = "done"]
    /\ UNCHANGED app_vol
    /\ UNCHANGED <<fsVars, bcVars, exVars, dgVars>>
    /\ UNCHANGED <<volVars, teVars, hayVars>>

NextApp ==
    \/ RunVolatility
    \/ RunSelectedTools
    \/ \E r \in RunIds : \E p \in RunJobs : r <= Len(app_vol) /\ AppWorkerStart(r, p)
    \/ \E r \in RunIds : \E p \in RunJobs : r <= Len(app_vol) /\ AppWorkerEnd(r, p)
    \/ \E r \in RunIds : r <= Len(app_vol) /\ AppPoll(r)
    \/ \E r \in RunIds : r <= Len(app_te) /\ AppBuild(r)
    \/ \E r \in RunIds : r <= Len(app_te) /\ AppStep(r)

\* the main window has created no runner
AppIdle == AppInit

\* no batch is followed line by line
ExIdle ==
    /\ ex_script = <<>>
    /\ ex_pc = "idle"
    /\ ex_idx = 0
    /\ ex_pos = 0
    /\ ex_after = <<>>
    /\ ex_dlg = "none"
    /\ ex_outbox = <<>>

\* no pure function is being called and no batch is followed line by line
FnIdle == FsIdle /\ BcIdle /\ ExIdle /\ DgIdle /\ AppIdle

\* one Volatility batch
InitVol == VolInit /\ TEIdle /\ HayIdle /\ FnIdle
SpecVol == InitVol /\ [][NextVol]_vars

\* the operator closes the progress window: _make_dialog (82-98) installs no
\* WM_DELETE_WINDOW handler, so the toplevel is simply destroyed; the main loop
\* handles the event when it is in neither run() nor a callback
UserClose ==
    /\ RunReturned
    /\ poll_pc[MainThread] = "idle"
    /\ dlg = "alive"
    /\ dlg' = "closed"
    /\ UNCHANGED <<runVars, bar, after_pending, workerVars, pollVars, tableVars>>
    /\ UNCHANGED <<teVars, hayVars, fnVars>>

NextVolClose == NextVol \/ UserClose

\* one Volatility batch whose window the operator may close
SpecVolClose == InitVol /\ [][NextVolClose]_vars

NextVolFault ==
    \/ NextVol
    \/ \E p \in Plugins : WorkerPopenFails(p) \/ WorkerDecodeFails(p) \/ WorkerWriteFails(p)

\* one Volatility batch in which spawning a process, decoding its output and
\* writing the output file may fail
SpecVolFault == InitVol /\ [][NextVolFault]_vars

\* one ToolExecutor batch
InitTE == TEInit /\ VolIdle /\ HayIdle /\ FnIdle
SpecTE == InitTE /\ [][NextTE]_vars

\* one Hayabusa run
InitHay == HayInit /\ VolIdle /\ TEIdle /\ FnIdle
SpecHay == InitHay /\ [][NextHay]_vars

\* one call of list_user_directories
InitList == FsInit /\ AppIdle /\ BcIdle /\ ExIdle /\ DgIdle /\ VolIdle /\ TEIdle /\ HayIdle
NextList == ListCall
SpecList == InitList /\ [][NextList]_vars

\* the output lines of one ToolExecutor batch
InitOut == ExInit /\ AppIdle /\ FsIdle /\ BcIdle /\ DgIdle /\ VolIdle /\ TEIdle /\ HayIdle
SpecOut == InitOut /\ [][NextOut]_vars

\* the diagnostic of one failed Volatility plugin
InitDiag == DgInit /\ AppIdle /\ FsIdle /\ BcIdle /\ ExIdle /\ VolIdle /\ TEIdle /\ HayIdle
SpecDiag == InitDiag /\ [][NextDiag]_vars

\* the operator starts runs from the main window
InitApp == AppInit /\ FsIdle /\ BcIdle /\ ExIdle /\ DgIdle /\ VolIdle /\ TEIdle /\ HayIdle
SpecApp == InitApp /\ [][NextApp]_vars

\* each builder is called twice in a row
InitBuild == BcInit /\ AppIdle /\ TEInit /\ FsIdle /\ ExIdle /\ DgIdle /\ VolIdle /\ HayIdle
NextBuild == BcTick \/ BcCallTE \/ BcCallHay
SpecBuild == InitBuild /\ [][NextBuild]_vars

\* ================================================================== claims

\* plugins whose process exited with a non-zero status
FailedPlugins == {p \in Plugins : returncode[p] \notin {-1, 0}}

\* the batch was started and nothing can run any more: run() has returned, every
\* worker thread has ended, no callback is scheduled, nobody is in _poll_queue
VolQuiescent ==
    /\ run_pc = "ret_started"
    /\ after_pending = 0
    /\ \A t \in Callers : poll_pc[t] = "idle"
    /\ \A p \in Plugins : w_pc[p] \in {"done", "dead"}

\* C1: once a started batch has nothing left to run, every plugin's status is
\* terminal, no message is left in the queue and the batch-finished summary was
\* issued (whatever subset of the plugins exited non-zero).
C1_BatchEndsTerminal ==
    VolQuiescent =>
        /\ \A p \in Plugins : IsTerminal(status[p])
        /\ queue = <<>>
        /\ Len(summaries) >= 1

\* C2: the batch-finished branch is executed at most once per batch.
C2_FinishedAtMostOnce == Len(summaries) <= 1

\* C3: every write to a plugin's status entry is absent -> "start" or
\* "start" -> terminal; a terminal entry is never overwritten.
C3_StatusSequence ==
    [][\A p \in Plugins :
          status'[p] # status[p] =>
              \/ status[p] = "none" /\ status'[p] = "start"
              \/ status[p] = "start" /\ IsTerminal(status'[p])]_vars

\* C4: the completed count of the status table and the value shown on the
\* progress bar never decrease; _current_step grows by at most one per step and
\* never exceeds _total_steps.
C4_CompletedMonotone ==
    [][/\ Finished(status') >= Finished(status)
       /\ bar' >= bar
       /\ te_current_step' \in {te_current_step, te_current_step + 1}
       /\ te_current_step' <= te_total_steps']_vars

\* C5: every batch-finished summary reports exactly the plugins whose process
\* exited non-zero; "All plugins finished" is issued only if none failed.
C5_SummaryMatchesFailures ==
    \A i \in 1..Len(summaries) :
        /\ summaries[i].failed = FailedPlugins
        /\ summaries[i].kind = "all_finished" => FailedPlugins = {}

\* C6: in a ToolExecutor batch at most one command's process is alive, and a
\* command is spawned only when no process is alive and every earlier command
\* has been waited for and its outcome handled (its progress step was taken).
C6_Sequential ==
    /\ Cardinality(te_live) <= 1
    /\ te_live \subseteq {te_idx}
    /\ te_pc = "popen" =>
          /\ te_live = {}
          /\ te_spawned = te_idx - 1
          /\ te_current_step = te_idx - 1

\* the second command is running after the first one has exited
C6_Witness == te_pc = "wait" /\ te_idx = 2 /\ te_live = {2} /\ te_current_step = 1

\* C7: a non-zero exit is reported once and does not stop the batch: the step is
\* advanced for the failed command, the loop goes on until every command was
\* executed, and "All tools finished" is issued exactly once at the end.
C7_FailureDoesNotStop ==
    /\ te_pc = "error" => te_rc # 0
    /\ te_error_boxes = te_failures - (IF te_pc = "error" THEN 1 ELSE 0)
    /\ te_pc = "loop" => te_current_step = te_idx - 1
    /\ te_pc = "crashed" => te_rc = -1 /\ te_spawned = te_idx - 1
    /\ te_pc \in {"new", "build", "loop", "popen", "wait", "error", "progress", "finish"}
          => ENABLED NextTE
    /\ te_finished = (IF te_pc = "done" THEN 1 ELSE 0)
    /\ te_pc = "done" =>
          /\ te_idx = Len(te_commands) + 1
          /\ te_spawned = Len(te_commands)
          /\ te_current_step = te_total_steps

\* a batch of several commands, all of which failed, is finished
C7_Witness ==
    /\ te_pc = "done"
    /\ Len(te_commands) >= 2
    /\ te_failures = Len(te_commands)
    /\ te_error_boxes = te_failures

\* C8: the terminal status recorded for a plugin is decided by its own exit
\* status alone ("ok" iff it exited 0, "error" iff it exited non-zero), whatever
\* the other plugins did, and each plugin's process is run at most once.
C8_OutcomeIsOwn ==
    \A q \in Plugins :
        /\ status[q] = "ok" => returncode[q] = 0
        /\ status[q] = "error" => returncode[q] \notin {-1, 0}
        /\ spawned[q] <= 1
        /\ returncode[q] # -1 => spawned[q] = 1
        /\ w_pc[q] \in {"done", "dead"} => spawned[q] = 1

\* one plugin ended "error" and another one "ok"
C8_Witness ==
    \E p, q \in Plugins :
        /\ p # q
        /\ status[p] = "error" /\ w_pc[p] = "done"
        /\ status[q] = "ok" /\ w_pc[q] = "done"

\* C9: when the probe command exits non-zero no worker thread is started, no
\* process is spawned, no poll is scheduled or run, and run() ends with the
\* dialog destroyed and the "no symbol table" warning.
C9_ProbeGate ==
    probe_rc \notin {-1, 0} =>
        /\ run_pc = "ret_no_symbols"
        /\ \A p \in Plugins : w_pc[p] = "unstarted" /\ spawned[p] = 0
        /\ after_pending = 0
        /\ \A t \in Callers : poll_pc[t] = "idle"
        /\ queue = <<>>
        /\ status = [p \in Plugins |-> "none"]
        /\ dlg = "destroyed"
        /\ "Error no symbole table for this image." \in boxes

\* the probe has failed and run() has returned
C9_Witness == probe_rc = 2 /\ run_pc = "ret_no_symbols"

\* C10: when the executable is absent and the prompt returns anything but
\* "Yes", _run ends at once: no install, no command built, no process spawned.
C10_DeclineGate ==
    hay_answer \in {"No", "None"} =>
        /\ hay_pc = "ret_declined"
        /\ hay_dlg = "destroyed"
        /\ hay_installs = 0
        /\ hay_builds = 0
        /\ hay_spawned = 0
        /\ ~hay_exe_present

\* the prompt window was closed without an answer
C10_Witness == hay_answer = "None" /\ hay_pc = "ret_declined"

\* an install was attempted and the required binary is still absent
HayInstallFailed == hay_installs > 0 /\ ~hay_exe_present
VolInstallFailed == run_pc \in {"recheck", "ret_no_vol", "raised"} /\ ~vol_exe_present

VolInstallGateHolds ==
    (~vol_exe_present /\ run_pc \notin {"run", "check_exe", "install", "ret_no_venv"}) =>
        /\ VolInstallFailed
        /\ probe_rc = -1
        /\ dlg = "none"
        /\ \A p \in Plugins : w_pc[p] = "unstarted" /\ spawned[p] = 0

\* _build_commands has returned: self._commands holds the batch
TEBuilt == te_pc \notin {"idle", "new", "build"}

\* number of commands of the batch whose executable is the tool's
CountOf(tool, cmds) == Cardinality({i \in 1..Len(cmds) : cmds[i].exe = tool})

\* number of times the tool is named in the selection
Occurrences(tool, tools) == Cardinality({i \in 1..Len(tools) : tools[i] = tool})

\* C12 (as stated): each of JLECmd.exe, LECmd.exe, RECmd\RECmd.exe and
\* SBECmd.exe contributes as many commands as there are discovered users, none
\* when there is no user.
C12_EntityCount ==
    TEBuilt =>
        \A tool \in {"JLECmd.exe", "LECmd.exe", "RECmd\\RECmd.exe", "SBECmd.exe"} :
            CountOf(tool, te_commands) = Occurrences(tool, te_tools) * Len(te_users)

\* C12 (amended): JLECmd.exe, LECmd.exe and SBECmd.exe contribute one command
\* per discovered user (none without users); RECmd\RECmd.exe contributes one
\* command per discovered user plus one command for the whole triage root.
C12_PerUserCount ==
    TEBuilt =>
        /\ \A tool \in {"JLECmd.exe", "LECmd.exe", "SBECmd.exe"} :
              CountOf(tool, te_commands) = Occurrences(tool, te_tools) * Len(te_users)
        /\ CountOf("RECmd\\RECmd.exe", te_commands)
              = Occurrences("RECmd\\RECmd.exe", te_tools) * (Len(te_users) + 1)
        /\ \A i \in 1..Len(te_commands) :
              te_commands[i].input[1] = "Users" =>
                  /\ te_commands[i].exe \in {"JLECmd.exe", "LECmd.exe",
                                             "RECmd\\RECmd.exe", "SBECmd.exe"}
                  /\ \E u \in 1..Len(te_users) : te_commands[i].input[2] = te_users[u]

\* RECmd and a per-user tool were selected with two discovered users
C12_Witness ==
    /\ TEBuilt
    /\ Len(te_users) = 2
    /\ te_tools = <<"RECmd\\RECmd.exe", "JLECmd.exe">>
    /\ Len(te_commands) = 5

\* C13 (as stated): each of AmcacheParser.exe, AppCompatCacheParser.exe,
\* EvtxECmd\EvtxECmd.exe, MFTECmd.exe and PECmd.exe contributes exactly one
\* command, whatever the discovered users.
C13_FixedCount ==
    TEBuilt =>
        \A tool \in {"AmcacheParser.exe", "AppCompatCacheParser.exe",
                     "EvtxECmd\\EvtxECmd.exe", "MFTECmd.exe", "PECmd.exe"} :
            CountOf(tool, te_commands) = Occurrences(tool, te_tools)

\* C13 (amended): AmcacheParser.exe, AppCompatCacheParser.exe,
\* EvtxECmd\EvtxECmd.exe and PECmd.exe contribute exactly one command and
\* MFTECmd.exe exactly two (one for $MFT, one for $J), whatever the users.
C13_FixedCountAmended ==
    TEBuilt =>
        /\ \A tool \in {"AmcacheParser.exe", "AppCompatCacheParser.exe",
                        "EvtxECmd\\EvtxECmd.exe", "PECmd.exe"} :
              CountOf(tool, te_commands) = Occurrences(tool, te_tools)
        /\ CountOf("MFTECmd.exe", te_commands) = 2 * Occurrences("MFTECmd.exe", te_tools)
        /\ \A i \in 1..Len(te_commands) :
              te_commands[i].exe = "MFTECmd.exe" =>
                  te_commands[i].input \in {<<"$MFT">>, <<"$Extend/$J">>}

\* MFTECmd and another fixed tool were selected while users were discovered
C13_Witness ==
    /\ TEBuilt
    /\ Len(te_users) >= 1
    /\ te_tools = <<"MFTECmd.exe", "PECmd.exe">>
    /\ Len(te_commands) = 3

\* the selection with the identifiers the builder does not know removed
RECURSIVE KnownOnly(_)
KnownOnly(tools) ==
    IF tools = <<>> THEN <<>>
    ELSE (IF Head(tools) \in ToolIds THEN <<Head(tools)>> ELSE <<>>) \o KnownOnly(Tail(tools))

\* C14: an unrecognized tool identifier is skipped with one warning and does not
\* abort the build: the commands are those built from the selection without the
\* unrecognized identifiers, in the same order.
C14_UnknownSkipped ==
    TEBuilt =>
        /\ te_commands = BuildCommands(KnownOnly(te_tools), te_users)
        /\ te_total_steps = Len(te_commands)
        /\ Len(te_warnings) = Len(te_tools) - Len(KnownOnly(te_tools))
        /\ \A i \in 1..Len(te_warnings) : te_warnings[i] \notin ToolIds

\* an unrecognized identifier came first and the tool after it was still built
C14_Witness ==
    /\ TEBuilt
    /\ te_tools = <<UnknownTool, "PECmd.exe">>
    /\ Len(te_commands) = 1
    /\ te_commands[1].exe = "PECmd.exe"
    /\ te_warnings = <<UnknownTool>>

\* where a command is told to write: the --csv directory and the --csvf name
Destination(cmd) == <<cmd.csv, cmd.csvf>>

\* C15: for a selection without repeated tools, any two distinct commands of the
\* batch have different output destinations, and every per-user command carries
\* a file name derived from its user's name.
C15_DistinctArtifacts ==
    (TEBuilt /\ NoRepeat(te_tools)) =>
        /\ \A i, j \in 1..Len(te_commands) :
              i # j => Destination(te_commands[i]) # Destination(te_commands[j])
        /\ \A i \in 1..Len(te_commands) :
              te_commands[i].input[1] = "Users" =>
                  /\ te_commands[i].csvf # <<>>
                  /\ te_commands[i].csvf[2] = te_commands[i].input[2]

\* the collision alone: two commands of one batch with the same destination
C15_NoCollision ==
    (TEBuilt /\ NoRepeat(te_tools)) =>
        \A i, j \in 1..Len(te_commands) :
            i # j => Destination(te_commands[i]) # Destination(te_commands[j])

\* thread t displays a progress view in this step: the running list is read
\* from the table now (line 159) and shown with the finished count that t
\* computed earlier (line 156)
ShowsView(t) == poll_pc[t] = "running" /\ poll_pc'[t] \in {"summary", "get"}

\* C16: in every progress view that is displayed, the running list and the
\* finished count together do not exceed the number of plugins whose status is
\* set (no plugin is counted both as running and as finished).
C16_ViewConsistent ==
    [][\A t \in Callers :
          ShowsView(t) =>
              Cardinality(Running(status)) + poll_finished[t] <= StatusLen(status)]_vars

\* threads that are inside _poll_queue
InPollQueue == {t \in Callers : poll_pc[t] # "idle"}

\* C17: at no instant are two threads inside _poll_queue: the messages of a
\* batch are applied to the status table by one consumer at a time.
C17_SingleConsumer == Cardinality(InPollQueue) <= 1

\* child processes of plugin p that exist and have not exited
Live(p) == spawned[p] - (IF returncode[p] # -1 THEN 1 ELSE 0)

\* number of plugin processes alive, over plugins 1..n
RECURSIVE LiveUpTo(_)
LiveUpTo(n) == IF n = 0 THEN 0 ELSE Live(n) + LiveUpTo(n - 1)

AppliesMessage(t) == poll_pc[t] = "set" /\ poll_pc'[t] # "set"

\* a write that would replace a terminal entry ("ok" or "error") by anything
IllegalTransition(old, new) == IsTerminal(old)

\* C19: an attempt to apply an illegal transition (writing over an entry that is
\* already "ok" or "error") fails loudly and leaves the table unchanged: the
\* thread that attempts it does not carry on and the entry keeps its value.
C19_IllegalFailsLoudly ==
    [][\A t \in Callers :
          (AppliesMessage(t) /\ IllegalTransition(status[poll_msg[t][1]], poll_msg[t][2])) =>
              /\ status' = status
              /\ poll_pc'[t] = "idle"]_vars

\* C20: when the operator has closed the progress window of a running batch,
\* every plugin that is not yet terminal is moved to a failed "cancelled" state:
\* once nothing of the batch runs any more, no entry is left absent or "start".
C20_CancelFailsJobs ==
    (dlg = "closed" /\ VolQuiescent) =>
        \A p \in Plugins : IsTerminal(status[p]) \/ status[p] = "cancelled"

\* ---- C21

\* the statuses of plugin p that a worker has put and that are still visible:
\* waiting in the queue (lines 141, 145), taken by a poller (153) or shown in
\* the status table (154)
Reported(p, s) ==
    \/ status[p] = s
    \/ \E i \in 1..Len(queue) : queue[i] = <<p, s>>
    \/ \E t \in Callers : poll_msg[t] = <<p, s>>

C22_SummaryShowsFailures ==
    te_pc = "done" => (te_status = "All tools finished" <=> te_failures = 0)

\* ---- C23

\* the names of the immediate sub-folders of the scanned folder other than
\* "Default" and "Public"
UserDirs ==
    {fs_entries[i].name : i \in {j \in 1..Len(fs_entries) :
        fs_entries[j].is_dir /\ fs_entries[j].name \notin {"Default", "Public"}}}

\* C23: list_user_directories(base) returns exactly the names of the immediate
\* sub-folders of base other than "Default" and "Public", each once (plain
\* files are left out), and returns the empty list, without raising, when base
\* does not exist.
C23_ListUsers ==
    fs_pc \notin {"idle", "call"} =>
        /\ fs_base = "dir" =>
               /\ fs_pc = "returned"
               /\ {fs_result[i] : i \in 1..Len(fs_result)} = UserDirs
               /\ Len(fs_result) = Cardinality(UserDirs)
        /\ fs_base = "missing" => fs_pc = "returned" /\ fs_result = <<>>

\* the folder holds "Public", a plain file and one user folder: the call
\* returned the user folder alone
C23_Witness ==
    /\ fs_pc = "returned" /\ fs_base = "dir"
    /\ \E i, j, k \in 1..Len(fs_entries) :
           /\ fs_entries[i].name = "Public" /\ fs_entries[i].is_dir
           /\ fs_entries[j].name = "bob" /\ ~fs_entries[j].is_dir
           /\ fs_entries[k].name = "alice" /\ fs_entries[k].is_dir
    /\ fs_result = <<"alice">>

\* ---- C24

SecondOf(call) == call.at \div TicksPerSecond

Contribution(k) ==
    IF te_tools[k] \in ToolIds THEN Builder(te_tools[k], te_users) ELSE <<>>

\* the users the first commands of a block are for, in order
UsersOf(block) ==
    [m \in 1..Len(te_users) |-> IF m <= Len(block) THEN block[m].input ELSE <<>>]

\* from position at + 1 on, the command list holds the commands of the k-th
\* selected tool, then those of the tools selected after it, and nothing else;
\* the per-user commands of a tool come first in its block, in discovery order
RECURSIVE ConcatFrom(_, _)
ConcatFrom(k, at) ==
    IF k > Len(te_tools) THEN Len(te_commands) = at
    ELSE LET n == Len(Contribution(k))
             block == SubSeq(te_commands, at + 1, at + n)
         IN /\ at + n <= Len(te_commands)
            /\ block = Contribution(k)
            /\ te_tools[k] \in {"JLECmd.exe", "LECmd.exe", "RECmd\\RECmd.exe", "SBECmd.exe"}
                   => UsersOf(block) = [m \in 1..Len(te_users) |-> <<"Users", te_users[m]>>]
            /\ ConcatFrom(k + 1, at + n)

\* the command list is the concatenation, in selection order, of the selected
\* tools' commands, so its length is the sum of the per-tool counts; it is
\* looked at each time the for loop of _run (121) turns to its next command
InSelectionOrder == ConcatFrom(1, 0)

\* the sequential runner is at command te_idx of that list, having spawned the
\* commands before it, each once
RunsInListOrder ==
    /\ te_pc \in {"popen", "wait", "error", "progress"} => te_idx \in 1..Len(te_commands)
    /\ te_pc = "popen" => te_spawned = te_idx - 1
    /\ te_pc \in {"wait", "error", "progress"} => te_spawned = te_idx
    /\ te_live \subseteq {te_idx}

\* one of tools a, b is selected first and the other second
PairSelected(A, B) ==
    /\ Len(te_tools) = 2
    /\ \/ te_tools[1] \in A /\ te_tools[2] \in B
       \/ te_tools[1] \in B /\ te_tools[2] \in A

MainPollAlive == after_pending > 0 \/ poll_pc[MainThread] # "idle"

\* some thread is draining the queue or may still come to drain it: the main
\* poller, a worker inside _poll_queue, or a worker that has not yet reached
\* the end of its try block (line 143)
DrainAhead ==
    \/ MainPollAlive
    \/ \E p \in Plugins : poll_pc[p] # "idle"
    \/ \E p \in Plugins : w_pc[p] \in {"put_start", "popen", "communicate", "write", "put_ok"}

\* C26: in a started batch, whenever a message waits in the queue or some plugin
\* is not terminal, a drain of the queue is still ahead, and as long as a plugin
\* is shown "start" the main poller is scheduled or running.
C26_DrainGuaranteed ==
    run_pc = "ret_started" =>
        /\ (queue # <<>> \/ \E p \in Plugins : ~IsTerminal(status[p])) => DrainAhead
        /\ (\E p \in Plugins : status[p] = "start") => MainPollAlive

\* ---- C27

\* C27: a command whose process cannot be spawned does not block the tool
\* batch: until "All tools finished" is issued the runner always has a next
\* step, and it is issued only after every command of the list was taken.
C27_SpawnFailureDoesNotBlock ==
    /\ te_pc \notin {"idle", "done"} => ENABLED NextTE
    /\ te_pc = "done" => te_idx = Len(te_commands) + 1

\* the Volatility part of C27: a worker that could not spawn its process or
\* could not write its output file has put an "error" message for its plugin
VolFaultReported ==
    \A p \in Plugins :
        w_pc[p] \in {"spawn_error", "write_error"} => Reported(p, "error")

\* ---- C28

\* C28: the pre-flight steps of run() happen in a fixed order, each at most
\* once: an install is attempted only while vol.exe is absent, the probe is run
\* only once vol.exe is present, it is run once, and no worker is started
\* before it has succeeded.
C28_PreflightOrder ==
    /\ run_pc \in {"install", "ret_no_vol"} => ~vol_exe_present
    /\ run_pc \in {"run", "check_exe", "install", "recheck", "dialog", "probe",
                   "ret_no_venv", "ret_no_vol", "raised"}
          => /\ probe_rc = -1
             /\ \A p \in Plugins : w_pc[p] = "unstarted"
    /\ run_pc \in {"dialog", "probe"} => vol_exe_present /\ venv_present
    /\ probe_rc # -1 =>
          /\ vol_exe_present /\ venv_present
          /\ run_pc \in {"start_threads", "schedule", "ret_started", "ret_no_symbols"}
    /\ run_pc \in {"start_threads", "schedule", "ret_started"} => probe_rc = 0
    /\ \A p \in Plugins : w_pc[p] # "unstarted" => probe_rc = 0
    /\ next_plugin > 1 => probe_rc = 0

\* the checks have passed, the probe has succeeded and the first worker, and
\* only the first, has been started
C28_Witness ==
    /\ run_pc = "start_threads" /\ next_plugin = 2
    /\ probe_rc = 0 /\ vol_exe_present
    /\ w_pc[1] = "put_start" /\ w_pc[2] = "unstarted"

\* ---- C29

\* C29: malformed bytes in the output of a job never keep it from a terminal
\* state: a Volatility worker whose process has exited was not ended by a
\* decode error, and is on the "ok" path or the "error" path that its exit
\* status calls for.
C29_DecodeNeverRaises ==
    \A p \in Plugins :
        /\ w_pc[p] # "decode_error"
        /\ (returncode[p] # -1 /\ w_pc[p] # "write_error") =>
               w_pc[p] \in (IF returncode[p] = 0
                              THEN {"write", "put_ok", "poll", "done", "dead"}
                              ELSE {"put_error", "append_error", "done"})

\* ---- C30

\* the segments of the text s: what stands between two line feeds, in order;
\* the last element is what follows the last line feed (<<>> if nothing does)
RECURSIVE Split(_, _)
Split(s, cur) ==
    IF s = <<>> THEN <<cur>>
    ELSE IF Head(s) = "LF" THEN <<cur>> \o Split(Tail(s), <<>>)
    ELSE Split(Tail(s), Append(cur, Head(s)))

\* the output of the process as the text stream presents it, cut in segments
Segments == Split(UniversalNewlines(hay_written), <<>>)

\* the segments that are ended by a terminator, and the one that is not
Terminated == SubSeq(Segments, 1, Len(Segments) - 1)
Unterminated == Segments[Len(Segments)]

\* an escape sequence (a match of ANSI_RE) starts somewhere in the line
HasEscape(line) == \E i \in 1..Len(line) : AnsiMatch(line, i) # 0

\* the read loop has reached the end of the stream
HayStreamRead == hay_pc = "wait"

\* C30 (as stated): every segment ended by a terminator is delivered exactly
\* once, in stream order, with the escape sequences removed, then the final
\* segment without terminator if there is one; no delivered line contains an
\* escape sequence, CR or LF.  (Blanks around a line are not held against the
\* code.)
C30_LinesDelivered ==
    HayStreamRead =>
        /\ Len(hay_outbox) = Len(Terminated) + (IF Unterminated # <<>> THEN 1 ELSE 0)
        /\ \A k \in 1..Len(hay_outbox) :
              /\ Strip(hay_outbox[k]) = Strip(AnsiSub(Segments[k]))
              /\ ~HasEscape(hay_outbox[k])
              /\ \A i \in 1..Len(hay_outbox[k]) : hay_outbox[k][i] \notin {"CR", "LF"}

\* the terminated segments of which something is left once the escape
\* sequences found by ANSI_RE.sub and the blanks around are removed
Cleaned == [k \in 1..Len(Terminated) |-> Strip(AnsiSub(Terminated[k]))]
NonBlank(line) == line # <<>>

\* C30 (amended): the terminated segments of which something is left once the
\* escape sequences found by one pass of ANSI_RE and the surrounding blanks are
\* removed are delivered exactly once each, in stream order, as what is left;
\* the other terminated segments are not delivered; a final segment without
\* terminator is still delivered, its escape sequences removed and its blanks
\* kept; no delivered line contains CR or LF.
C30_NonBlankLinesDelivered ==
    HayStreamRead =>
        /\ hay_outbox = SelectSeq(Cleaned, NonBlank)
                        \o (IF Unterminated # <<>> THEN <<AnsiSub(Unterminated)>> ELSE <<>>)
        /\ \A k \in 1..Len(hay_outbox) :
              \A i \in 1..Len(hay_outbox[k]) : hay_outbox[k][i] \notin {"CR", "LF"}

\* the process wrote an empty line and then, without terminator, an escape
\* sequence followed by a letter: the letter alone was delivered
C30_Witness ==
    /\ HayStreamRead
    /\ Terminated = << <<>> >>
    /\ HasEscape(Unterminated)
    /\ hay_outbox = << <<"a">> >>

\* no delivered line contains an escape sequence
NoEscapeDelivered ==
    HayStreamRead => \A k \in 1..Len(hay_outbox) : ~HasEscape(hay_outbox[k])

\* what command k of the batch puts into the text box: its lines as
\* _execute strips them, then the "ERROR" line if it exited non-zero
RECURSIVE StrippedFrom(_, _)
StrippedFrom(lines, j) ==
    IF j > Len(lines) THEN <<>> ELSE <<RStrip(lines[j])>> \o StrippedFrom(lines, j + 1)
LinesOfCommand(k) ==
    StrippedFrom(ex_script[k].lines, 1)
        \o (IF ex_script[k].rc # 0 THEN <<ErrorLine>> ELSE <<>>)

\* the lines of commands k, k+1, ... one command after the other
RECURSIVE LinesFrom(_)
LinesFrom(k) == IF k > Len(ex_script) THEN <<>> ELSE LinesOfCommand(k) \o LinesFrom(k + 1)

IsPrefix(p, q) == Len(p) <= Len(q) /\ SubSeq(q, 1, Len(p)) = p

\* C31: within one sequential ToolExecutor batch the text box holds the
\* output lines in emission order: the lines of one command in stream
\* order, all lines of command k before any line of command k+1, and the
\* "ERROR" line of a failed command after all output lines of that command;
\* that is, at every moment the box is a beginning of that sequence.
C31_LinesInOrder == IsPrefix(ex_outbox, LinesFrom(1))

\* a batch of two commands, the first writing two different lines and
\* failing, the second writing at least one line, all of it in the box
C31_Witness ==
    /\ ex_pc = "done"
    /\ Len(ex_script) = 2
    /\ ex_script[1].lines = << <<"a">>, <<"1", " ">> >>
    /\ ex_script[1].rc # 0
    /\ ex_script[2].lines # <<>>
    /\ ex_script[2].lines[1] = <<"1", " ">>
    /\ ex_outbox = LinesFrom(1)

\* the last n characters of a text (the whole text if it is shorter)
LastChars(text, n) ==
    IF Len(text) <= n THEN text ELSE SubSeq(text, Len(text) - n + 1, Len(text))

\* C32: the diagnostic recorded for a failed Volatility plugin holds at most
\* 120 characters of the error output of the process, and these are the
\* trailing characters of that output.
C32_DiagnosticIsTail ==
    dg_pc = "recorded" =>
        /\ Len(dg_status.body) <= DiagLimit
        /\ dg_status.body = LastChars(dg_stderr, DiagLimit)

\* the bounded half of C32 alone
DiagBounded == dg_pc = "recorded" => Len(dg_status.body) <= DiagLimit

\* the jobs of runner r that have failed
FailedOf(r) == {p \in RunJobs : \E i \in 1..Len(app_vol[r].plugin_error) :
                                    app_vol[r].plugin_error[i].plugin = p}

\* everything runner r holds was written by its own threads
OwnStateOnly(r) ==
    LET v == app_vol[r]
    IN /\ \A i \in 1..Len(v.queue) : v.queue[i].run = r
       /\ \A p \in RunJobs : v.status[p].status # "none" => v.status[p].run = r
       /\ \A i \in 1..Len(v.plugin_error) : v.plugin_error[i].run = r
       /\ \A k \in 1..Len(v.summary) : \A i \in 1..Len(v.summary[k]) :
              v.summary[k][i].run = r

\* a runner none of whose threads has written anything is as __init__ left it
StartsEmpty(r) ==
    (\A p \in RunJobs : app_vol[r].w_pc[p] = "unstarted") =>
        /\ app_vol[r].queue = <<>>
        /\ app_vol[r].plugin_error = <<>>
        /\ app_vol[r].bar = 0
        /\ app_vol[r].summary = <<>>
        /\ \A p \in RunJobs : app_vol[r].status[p] = NoEntry

\* the progress of runner r counts its own finished jobs only, and a job is
\* shown as failed only if its own process has ended
OwnProgressOnly(r) ==
    /\ app_vol[r].bar <= Cardinality({p \in RunJobs : app_vol[r].w_pc[p] = "done"})
    /\ \A p \in FailedOf(r) : app_vol[r].w_pc[p] = "done"

\* the command list and the counters of executor r come from its own tools
OwnCommandsOnly(r) ==
    LET t == app_te[r]
    IN /\ t.pc = "build" => t.commands = <<>> /\ t.total_steps = 0 /\ t.current_step = 0
       /\ t.pc # "build" => t.commands = BuildCommands(t.tools, <<>>)
       /\ t.total_steps = Len(t.commands)
       /\ t.current_step <= t.total_steps
       /\ t.pc = "done" => t.current_step = t.total_steps

\* C33: no job state leaks between runs: every run has its own runner whose
\* status table, error list, queue, command list and step counters start
\* empty or zero, and the progress and the summary of a run never include a
\* job, a failure or a message of an earlier or concurrently started run.
C33_NoLeakBetweenRuns ==
    /\ \A r \in 1..Len(app_vol) : OwnStateOnly(r) /\ StartsEmpty(r) /\ OwnProgressOnly(r)
    /\ \A r \in 1..Len(app_te) : OwnCommandsOnly(r)

\* two Volatility runs started one after the other and running together: the
\* second was created while the first had a failure on record, the first
\* ends with that failure in its summary and the second with none
C33_Witness ==
    /\ Len(app_vol) = 2
    /\ Len(app_vol[1].summary) = 1
    /\ Len(app_vol[1].summary[1]) = 1
    /\ app_vol[2].summary = << <<>> >>
    /\ app_vol[2].bar = MaxRunJobs

====
